---- MODULE Spec2Model ----
(***************************************************************************)
(* A model of the Bali Document Notation component library: the generic    *)
(* comparator, the sortable list (sort, range removal, shuffle, ordinal     *)
(* indexing), the merge loop of the sorter, the angle element, the         *)
(* scalable elements, the complex numbers, the probabilities and their     *)
(* coin toss, the constructors, and the names with their iterators.        *)
(* JavaScript values are records tagged by k; doubles are integers on a    *)
(* grid with three sentinels (NaN, PosInf, NegInf); strings are sequences  *)
(* of one-character strings ordered by Alphabet; arrays that are shared by *)
(* reference live in a heap indexed by reference.                          *)
(***************************************************************************)
EXTENDS Integers, Sequences, FiniteSets, TLC

VARIABLES
    array,          \* List.array: the items of the list under test
    removedItems,   \* the collection returned by the last removeItems call
    before,         \* the items of the list when the last operation started
    op,             \* the last list operation and its arguments
    thrown,         \* TRUE when the last list operation raised
    first,          \* comparator input a
    second,         \* comparator input b
    third,          \* comparator input c
    results,        \* the comparator's results on (a,b), (b,a), (b,c), (a,c)
    input,          \* the Angle constructor's value argument
    units,          \* the Angle constructor's $units parameter
    angle,          \* the constructed Angle
    type,           \* the element type whose functions the caller exercises
    subject,        \* the first operand or constructor argument
    other,          \* the second operand or constructor argument
    factor,         \* the scale factor handed to scaled()
    outcome,        \* what the calls on subject, other and factor produced
    arrays,         \* the JavaScript arrays allocated; a reference is an index
    held,           \* the references to arrays that the caller holds
    names,          \* the Names constructed
    iterators,      \* the NameIterators constructed
    calls           \* the last call on a Name or NameIterator, and a getNext it undoes

vars == <<array, removedItems, before, op, thrown,
          first, second, third, results, input, units, angle,
          type, subject, other, factor, outcome,
          arrays, held, names, iterators, calls>>

listVars == <<array, removedItems, before, op, thrown>>
cmpVars == <<first, second, third, results>>
angleVars == <<input, units, angle>>
elementVars == <<type, subject, other, factor, outcome>>
nameVars == <<arrays, held, names, iterators, calls>>

-----------------------------------------------------------------------------
(* Bounds of the model.                                                    *)

MaxSize == 5        \* longest list under test
MaxItem == 3        \* a list holds at most MaxItem different Number components
MaxLen == 3         \* longest List component handed to the comparator
MaxTurns == 4       \* Angle inputs range over -MaxTurns*PI .. MaxTurns*PI

-----------------------------------------------------------------------------
(* IEEE doubles: finite integers plus NaN and the two infinities.  The     *)
(* infinities are encoded beyond every finite value so that < and > agree  *)
(* with IEEE on them; NaN is handled explicitly by every operator.         *)

NaN == 9999
PosInf == 1000
NegInf == -1000

IsNaN(x) == x = NaN
IsFiniteNum(x) == x # NaN /\ x # PosInf /\ x # NegInf

\* first - second on doubles
jsSub(x, y) ==
    IF IsNaN(x) \/ IsNaN(y) THEN NaN
    ELSE IF x = PosInf THEN (IF y = PosInf THEN NaN ELSE PosInf)
    ELSE IF x = NegInf THEN (IF y = NegInf THEN NaN ELSE NegInf)
    ELSE IF y = PosInf THEN NegInf
    ELSE IF y = NegInf THEN PosInf
    ELSE x - y

\* Math.sign
MathSign(x) ==
    IF IsNaN(x) THEN NaN
    ELSE IF x > 0 THEN 1
    ELSE IF x < 0 THEN -1
    ELSE 0

-----------------------------------------------------------------------------
(* Strings and String.prototype.localeCompare.                             *)

\* the collation order of the characters the model renders
Alphabet == <<" ", "-", ",", "(", ")", "[", "]", "/",
              "0", "1", "2", "3", "4", "5", "6", "7", "8", "9",
              "a", "b", "d", "e", "f", "i", "I", "l", "n", "N",
              "r", "s", "t", "u", "y">>

Rank(c) == CHOOSE i \in 1..Len(Alphabet) : Alphabet[i] = c

RECURSIVE localeCompareFrom(_, _, _)
localeCompareFrom(s, t, i) ==
    IF i > Len(s) /\ i > Len(t) THEN 0
    ELSE IF i > Len(s) THEN -1
    ELSE IF i > Len(t) THEN 1
    ELSE IF Rank(s[i]) < Rank(t[i]) THEN -1
    ELSE IF Rank(s[i]) > Rank(t[i]) THEN 1
    ELSE localeCompareFrom(s, t, i + 1)

localeCompare(s, t) == localeCompareFrom(s, t, 1)

Digits == <<"0", "1", "2", "3", "4", "5", "6", "7", "8", "9">>

RECURSIVE natToString(_)
natToString(n) ==
    IF n < 10 THEN <<Digits[n + 1]>>
    ELSE natToString(n \div 10) \o <<Digits[(n % 10) + 1]>>

\* Number.prototype.toString of a primitive number
numberToString(n) ==
    IF IsNaN(n) THEN <<"N", "a", "N">>
    ELSE IF n = PosInf THEN <<"I", "n", "f", "i", "n", "i", "t", "y">>
    ELSE IF n = NegInf THEN <<"-", "I", "n", "f", "i", "n", "i", "t", "y">>
    ELSE IF n < 0 THEN <<"-">> \o natToString(-n)
    ELSE natToString(n)

-----------------------------------------------------------------------------
(* JavaScript values.                                                      *)

Undefined == [k |-> "undefined"]
Bool(b) == [k |-> "boolean", b |-> b]
Num(n) == [k |-> "number", n |-> n]
Str(s) == [k |-> "string", s |-> s]

\* the result of a call: a returned value or a raised TypeError
Return(v) == [t |-> "return", v |-> v]
Throw == [t |-> "throw", v |-> 0]

typeof(x) ==
    IF x.k \in {"undefined", "boolean", "number", "string"} THEN x.k ELSE "object"

\* ToBoolean, as applied by !x and if (x)
Truthy(x) ==
    CASE x.k = "undefined" -> FALSE
      [] x.k = "boolean" -> x.b
      [] x.k = "number" -> x.n # 0 /\ ~IsNaN(x.n)
      [] x.k = "string" -> x.s # <<>>
      [] OTHER -> TRUE

-----------------------------------------------------------------------------
(* Components.                                                             *)

LockLow == 1        \* grid image of 6.123233995736766e-16
LockHigh == 7       \* grid image of 16331239353195370

\* utilities.precision.lockOnExtreme, as lockOnPole computes it
lockOnExtreme(number) ==
    IF IsNaN(number) THEN number
    ELSE IF number > 0 /\ number <= LockLow THEN 0
    ELSE IF number < 0 /\ number >= -LockLow THEN 0
    ELSE IF number > 0 /\ number >= LockHigh THEN PosInf
    ELSE IF number < 0 /\ number <= -LockHigh THEN PosInf
    ELSE number

\* new Complex(real, imaginary) in rectangular form
Complex(real, imaginary) ==
    LET re == lockOnExtreme(real)
        im == lockOnExtreme(imaginary)
    IN  IF IsNaN(re) \/ IsNaN(im)
        THEN [k |-> "Number", re |-> NaN, im |-> NaN]
        ELSE IF re = PosInf \/ re = NegInf \/ im = PosInf \/ im = NegInf
        THEN [k |-> "Number", re |-> PosInf, im |-> PosInf]
        ELSE [k |-> "Number", re |-> re, im |-> im]

isUndefined(z) == numberToString(z.re) = <<"N", "a", "N">>
isZero(z) == z.re = 0 /\ z.im = 0
isInfinite(z) == z.re = PosInf

\* a List holding the given items, and a Name with the given identifiers
ListOf(items) == [k |-> "List", items |-> items]
NameOf(ids) == [k |-> "Name", ids |-> ids]

\* the canonical literal of a real number
formatReal(value) ==
    IF IsNaN(value) THEN <<"u", "n", "d", "e", "f", "i", "n", "e", "d">>
    ELSE IF value = PosInf \/ value = NegInf
    THEN <<"i", "n", "f", "i", "n", "i", "t", "y">>
    ELSE numberToString(value)

formatImaginary(value) ==
    LET literal == formatReal(value)
    IN  IF IsFiniteNum(value) THEN literal \o <<"i">> ELSE literal

\* the rectangular literal of a Number component
toRectangular(z) ==
    IF isUndefined(z) THEN formatReal(NaN)
    ELSE IF isZero(z) THEN <<"0">>
    ELSE IF isInfinite(z) THEN formatReal(PosInf)
    ELSE IF z.re = 0 THEN formatImaginary(z.im)
    ELSE IF z.im = 0 THEN formatReal(z.re)
    ELSE <<"(">> \o formatReal(z.re) \o <<",", " ">>
         \o formatImaginary(z.im) \o <<")">>

RECURSIVE joinNames(_, _)
joinNames(ids, i) ==
    IF i > Len(ids) THEN <<>> ELSE <<"/">> \o ids[i] \o joinNames(ids, i + 1)

RECURSIVE toString(_)
RECURSIVE joinItems(_, _)
joinItems(items, i) ==
    IF i > Len(items) THEN <<>>
    ELSE (IF i > 1 THEN <<",", " ">> ELSE <<>>)
         \o toString(items[i]) \o joinItems(items, i + 1)

\* x.toString() of a defined value
toString(x) ==
    CASE x.k = "boolean" ->
            IF x.b THEN <<"t", "r", "u", "e">> ELSE <<"f", "a", "l", "s", "e">>
      [] x.k = "number" -> numberToString(x.n)
      [] x.k = "string" -> x.s
      [] x.k = "Number" -> toRectangular(x)
      [] x.k = "Name" -> joinNames(x.ids, 1)
      [] x.k = "List" -> <<"[">> \o joinItems(x.items, 1) \o <<"]">>

\* the methods a value exposes
hasToBoolean(x) == x.k \in {"Number", "Name"}
hasToNumber(x) == x.k \in {"Number"}
hasGetIterator(x) == x.k \in {"List", "Name"}
hasGetType(x) == typeof(x) = "object"

\* Complex.prototype.toBoolean and Name.prototype.toBoolean
toBoolean(x) ==
    IF x.k = "Number" THEN ~(isZero(x) \/ isUndefined(x)) ELSE TRUE

\* Complex.prototype.toNumber
toNumber(x) == x.re

\* types.isLiteral(x.getType()): the elemental types have a literal form
isLiteral(x) == x.k \in {"Number", "Name"}

\* the sequence a component's iterator walks
iterated(x) ==
    IF x.k = "List" THEN x.items ELSE [i \in 1..Len(x.ids) |-> Str(x.ids[i])]

\* the numeric value of a boolean in first - second
boolNum(b) == IF b THEN 1 ELSE 0

-----------------------------------------------------------------------------
(* Comparator.                                                             *)

RECURSIVE compareComponents(_, _)
RECURSIVE compareIterators(_, _, _, _)
RECURSIVE compareIteratorsLongerFirst(_, _, _, _)

\* compareIterators with the two length tests exchanged
compareIteratorsLongerFirst(xs, ys, slot, result) ==
    IF result.t = "throw" THEN Throw
    ELSE IF result.v = 0 /\ slot <= Len(xs) /\ slot <= Len(ys)
    THEN compareIteratorsLongerFirst(xs, ys, slot + 1,
                                     compareComponents(xs[slot], ys[slot]))
    ELSE IF result.v # 0 THEN result
    ELSE IF slot <= Len(xs) THEN Return(-1)
    ELSE IF slot <= Len(ys) THEN Return(1)
    ELSE Return(0)

\* the composite branch: the while loop over both iterators and its epilogue
compareIterators(xs, ys, slot, result) ==
    IF result.t = "throw" THEN Throw
    ELSE IF result.v = 0 /\ slot <= Len(xs) /\ slot <= Len(ys)
    THEN compareIterators(xs, ys, slot + 1,
                          compareComponents(xs[slot], ys[slot]))
    ELSE IF result.v # 0 THEN result
    ELSE IF slot <= Len(xs) THEN Return(1)
    ELSE IF slot <= Len(ys) THEN Return(-1)
    ELSE Return(0)

\* Comparator.prototype.compareComponents(a, b)
compareComponents(a, b) ==
    \* handle undefined components
    IF Truthy(a) /\ ~Truthy(b) THEN Return(1)
    ELSE IF ~Truthy(a) /\ Truthy(b) THEN Return(-1)
    ELSE IF ~Truthy(a) /\ ~Truthy(b) THEN Return(0)
    \* handle boolean components
    ELSE IF typeof(a) = "boolean" /\ typeof(b) = "boolean"
    THEN Return(MathSign(jsSub(boolNum(a.b), boolNum(b.b))))
    ELSE IF hasToBoolean(a) /\ typeof(b) = "boolean"
    THEN Return(MathSign(jsSub(boolNum(toBoolean(a)), boolNum(b.b))))
    ELSE IF typeof(a) = "boolean" /\ hasToBoolean(b)
    THEN Return(MathSign(jsSub(boolNum(a.b), boolNum(toBoolean(b)))))
    \* handle numeric components
    ELSE IF typeof(a) = "number" /\ typeof(b) = "number"
    THEN IF toString(a) = toString(b) THEN Return(0)
         ELSE Return(MathSign(jsSub(a.n, b.n)))
    ELSE IF hasToNumber(a) /\ typeof(b) = "number"
    THEN IF toString(a) = toString(b) THEN Return(0)
         ELSE Return(MathSign(jsSub(toNumber(a), b.n)))
    ELSE IF typeof(a) = "number" /\ hasToNumber(b)
    THEN IF toString(a) = toString(b) THEN Return(0)
         ELSE Return(MathSign(jsSub(a.n, toNumber(b))))
    ELSE IF hasToNumber(a) /\ hasToNumber(b)
    THEN IF toString(a) = toString(b) THEN Return(0)
         ELSE Return(MathSign(jsSub(toNumber(a), toNumber(b))))
    \* handle string components
    ELSE IF typeof(a) = "string" /\ typeof(b) = "string"
    THEN Return(MathSign(localeCompare(a.s, b.s)))
    \* first.getType() is called before the type of second is looked at
    ELSE IF ~hasGetType(a) THEN Throw
    ELSE IF isLiteral(a) /\ typeof(b) = "string"
    THEN Return(MathSign(localeCompare(toString(a), b.s)))
    \* typeof first === 'string' is false here: a has getType
    \* handle composite components
    ELSE IF hasGetIterator(a) /\ hasGetIterator(b)
    THEN compareIterators(iterated(a), iterated(b), 1, Return(0))
    \* must be two elemental objects of the same type
    ELSE Return(MathSign(localeCompare(toString(a), toString(b))))

\* Comparator.prototype.componentsAreEqual
componentsAreEqual(a, b) ==
    LET r == compareComponents(a, b) IN r.t = "return" /\ r.v = 0

-----------------------------------------------------------------------------
(* The inputs handed to the comparator.                                    *)

PrimitiveNumbers == {NaN, NegInf, -3, 0, 2, 3, PosInf}
PrimitiveStrings == {<<>>, <<"a">>, <<"b">>, <<"2">>}
NumberComponents == {Complex(r, 0) : r \in {NaN, PosInf, -3, 0, 2, 3}}
NameComponents == {NameOf(<<<<"a">>>>), NameOf(<<<<"a">>, <<"b">>>>),
                   NameOf(<<<<"b">>>>)}
ListItems == {Complex(2, 0), Complex(3, 0)}
ListComponents ==
    {ListOf(items) : items \in UNION {[1..n -> ListItems] : n \in 0..MaxLen}}

Values ==
    {Undefined} \cup {Bool(b) : b \in BOOLEAN}
    \cup {Num(n) : n \in PrimitiveNumbers}
    \cup {Str(s) : s \in PrimitiveStrings}
    \cup NumberComponents \cup NameComponents \cup ListComponents

NotCompared ==
    [done |-> FALSE, ab |-> Return(0), ba |-> Return(0),
     bc |-> Return(0), ac |-> Return(0)]

IdleList ==
    /\ array = <<>>
    /\ removedItems = <<>>
    /\ before = <<>>
    /\ op = [name |-> "none", firstIndex |-> 0, lastIndex |-> 0]
    /\ thrown = FALSE

IdleCmp ==
    /\ first = Undefined
    /\ second = Undefined
    /\ third = Undefined
    /\ results = NotCompared

IdleAngle ==
    /\ input = 0
    /\ units = "radians"
    /\ angle = [done |-> FALSE, thrown |-> FALSE, value |-> 0]

IdleElement ==
    /\ type = "none"
    /\ subject = Undefined
    /\ other = Undefined
    /\ factor = 0
    /\ outcome = [done |-> FALSE]

IdleName ==
    /\ arrays = <<>>
    /\ held = {}
    /\ names = <<>>
    /\ iterators = <<>>
    /\ calls = <<>>

InitCmp ==
    /\ first \in Values
    /\ second \in Values
    /\ third \in Values
    /\ results = NotCompared
    /\ IdleList
    /\ IdleName
    /\ IdleAngle
    /\ IdleElement

\* the caller compares a with b, b with a, b with c and a with c
CompareComponents ==
    /\ ~results.done
    /\ results' = [done |-> TRUE,
                   ab |-> compareComponents(first, second),
                   ba |-> compareComponents(second, first),
                   bc |-> compareComponents(second, third),
                   ac |-> compareComponents(first, third)]
    /\ UNCHANGED <<first, second, third>>
    /\ UNCHANGED listVars
    /\ UNCHANGED nameVars
    /\ UNCHANGED angleVars
    /\ UNCHANGED elementVars

NextCmp == CompareComponents

SpecCmp == InitCmp /\ [][NextCmp]_vars

-----------------------------------------------------------------------------
(* Properties of the comparator, checked under SpecCmp.                    *)

Returned(r) == r.t = "return"
IsSign(v) == v \in {-1, 0, 1}

\* JavaScript == on two doubles: NaN equals nothing
jsEquals(x, y) == ~IsNaN(x) /\ ~IsNaN(y) /\ x = y
jsNegate(x) == IF IsNaN(x) THEN NaN ELSE -x

\* C3: every result compareComponents returns is one of -1, 0 and 1,
\* Number components that are Undefined or Infinite included.
C3_ResultIsSign ==
    results.done /\ Returned(results.ab) => IsSign(results.ab.v)

\* C4: the comparator is antisymmetric: whenever both calls return,
\* compareComponents(a, b) == -compareComponents(b, a).
C4_Antisymmetric ==
    results.done /\ Returned(results.ab) /\ Returned(results.ba)
        => jsEquals(results.ab.v, jsNegate(results.ba.v))

\* C5: equality is transitive: when a equals b, b equals c and the
\* comparator accepts the pair (a, c), then a equals c.
C5_EqualityTransitive ==
    results.done /\ results.ab = Return(0) /\ results.bc = Return(0)
                 /\ Returned(results.ac)
        => results.ac = Return(0)

isNumeric(x) == typeof(x) = "number" \/ hasToNumber(x)
numericValue(x) == IF typeof(x) = "number" THEN x.n ELSE toNumber(x)

\* C6: on two numeric-compatible values with finite numeric values the
\* result is the sign of first minus second, whatever the signs of the two.
C6_NumericSign ==
    results.done /\ isNumeric(first) /\ isNumeric(second)
                 /\ IsFiniteNum(numericValue(first))
                 /\ IsFiniteNum(numericValue(second))
        => results.ab =
             Return(MathSign(numericValue(first) - numericValue(second)))

\* C7: undefined is less than every present value, every present value is
\* greater than undefined, and undefined equals undefined.
C7_PresenceCheck ==
    results.done /\ first = Undefined
        => IF second = Undefined
           THEN results.ab = Return(0)
           ELSE results.ab = Return(-1) /\ results.ba = Return(1)

\* the position of the first pair the comparator does not find equal
FirstDifference(xs, ys) ==
    LET shared == IF Len(xs) < Len(ys) THEN Len(xs) ELSE Len(ys)
        differing == {i \in 1..shared :
                         compareComponents(xs[i], ys[i]) # Return(0)}
    IN  IF differing = {} THEN 0
        ELSE CHOOSE i \in differing : \A j \in differing : i <= j

\* C8: two iterable components compare lexicographically: the first pair
\* that does not compare equal decides, and when every shared position is
\* equal the shorter sequence is less and equal lengths give 0.
C8_Lexicographic ==
    results.done /\ hasGetIterator(first) /\ hasGetIterator(second)
        => LET xs == iterated(first)
               ys == iterated(second)
               d == FirstDifference(xs, ys)
           IN  IF d # 0 THEN results.ab = compareComponents(xs[d], ys[d])
               ELSE IF Len(xs) < Len(ys) THEN results.ab = Return(-1)
               ELSE IF Len(xs) > Len(ys) THEN results.ab = Return(1)
               ELSE results.ab = Return(0)

\* a proper prefix was compared with its extension, in both directions
C8_Witness ==
    /\ results.done
    /\ first = ListOf(<<Complex(2, 0), Complex(3, 0)>>)
    /\ second = ListOf(<<Complex(2, 0), Complex(3, 0), Complex(2, 0)>>)
    /\ results.ab = Return(-1)
    /\ results.ba = Return(1)

\* C9: compareComponents never raises, whatever kinds of values are paired.
C9_NeverRaises ==
    results.done => Returned(results.ab)

-----------------------------------------------------------------------------
(* The sortable list.                                                      *)

\* the items a caller adds: Number components above the lock-on threshold
Items == {Complex(v + 1, 0) : v \in 1..MaxItem}
IndexArguments == (-2)..(MaxSize + 1)

ArrayOf(items) == [k |-> "Array", items |-> items]

\* array[index] with zero based indexing: undefined outside the array
elementAt(items, index) ==
    IF index >= 0 /\ index < Len(items) THEN items[index + 1] ELSE Undefined

\* array.splice(index, 1)
splice(items, index) ==
    [i \in 1..(Len(items) - 1) |-> IF i <= index THEN items[i] ELSE items[i + 1]]

\* array.slice(from, to)
slice(items, from, to) == [i \in 1..(to - from) |-> items[from + i]]

\* Composite.prototype.normalizeIndex: a negative index counts from the end
normalizeIndex(index, size) ==
    IF index < 0 THEN index + size + 1 ELSE index

\* List.prototype.removeItem
removeItem(items, ordinal) ==
    LET index == normalizeIndex(ordinal, Len(items)) - 1
        oldItem == elementAt(items, index)
    IN  IF Truthy(oldItem)
        THEN [array |-> splice(items, index), item |-> oldItem]
        ELSE [array |-> items, item |-> oldItem]

\* the while loop of SortableCollection.prototype.removeItems
RECURSIVE removeItemsLoop(_, _, _, _)
removeItemsLoop(items, removed, index, lastIndex) ==
    IF index <= lastIndex
    THEN LET r == removeItem(items, index)
         IN  removeItemsLoop(r.array,
                             IF Truthy(r.item) THEN Append(removed, r.item)
                                               ELSE removed,
                             index + 1, lastIndex)
    ELSE [array |-> items, removed |-> removed]

\* SortableCollection.prototype.removeItems(firstIndex, lastIndex)
removeItems(items, firstIndex, lastIndex) ==
    removeItemsLoop(items, <<>>,
                    normalizeIndex(firstIndex, Len(items)),
                    normalizeIndex(lastIndex, Len(items)))

\* List.prototype.removeItems(range): the loop over the range's iterator
RECURSIVE removeRangeLoop(_, _, _, _)
removeRangeLoop(items, removed, index, lastIndex) ==
    IF index <= lastIndex
    THEN LET r == removeItem(items, index)
         IN  removeRangeLoop(r.array, Append(removed, r.item),
                             index + 1, lastIndex)
    ELSE [array |-> items, removed |-> removed]

removeRange(items, firstIndex, lastIndex) ==
    removeRangeLoop(items, <<>>, firstIndex, lastIndex)

\* Composite.compareItems: the natural comparison of two items
compareItems(a, b) == compareComponents(a, b)

\* a call that never returns
Hang == [t |-> "hang", v |-> 0]

\* the while loop of MergeSorter.prototype.mergeArrays and its epilogue
RECURSIVE mergeLoop(_, _, _, _, _)
mergeLoop(left, right, leftIndex, rightIndex, result) ==
    IF leftIndex < Len(left) /\ rightIndex < Len(right)
    THEN LET c == compareItems(left[leftIndex + 1], right[rightIndex + 1])
         IN  IF c.t = "throw" THEN Throw
             ELSE IF c.v = -1
             THEN mergeLoop(left, right, leftIndex + 1, rightIndex,
                            Append(result, left[leftIndex + 1]))
             ELSE IF c.v = 0 \/ c.v = 1
             THEN mergeLoop(left, right, leftIndex, rightIndex + 1,
                            Append(result, right[rightIndex + 1]))
             ELSE Hang
    ELSE IF leftIndex < Len(left)
    THEN Return(ArrayOf(result \o slice(left, leftIndex, Len(left))))
    ELSE Return(ArrayOf(result \o slice(right, rightIndex, Len(right))))

\* MergeSorter.prototype.mergeArrays: left.length and right.length are read
mergeArrays(left, right) ==
    IF left.k = "undefined" \/ right.k = "undefined" THEN Throw
    ELSE mergeLoop(left.items, right.items, 0, 0, <<>>)

\* MergeSorter.prototype.sortArray: a bare return yields undefined
RECURSIVE sortArray(_)
sortArray(items) ==
    LET length == Len(items)
        leftLength == length \div 2
    IN  IF length < 2 THEN Return(Undefined)
        ELSE LET left == sortArray(slice(items, 0, leftLength))
                 right == sortArray(slice(items, leftLength, length))
             IN  IF left.t # "return" THEN left
                 ELSE IF right.t # "return" THEN right
                 ELSE mergeArrays(left.v, right.v)

NoOperation == [name |-> "none", firstIndex |-> 0, lastIndex |-> 0]
Idle == [name |-> "idle", firstIndex |-> 0, lastIndex |-> 0]

\* no call on the list is in progress
Ready == op \in {NoOperation, Idle}

InitList ==
    /\ array = <<>>
    /\ removedItems = <<>>
    /\ before = <<>>
    /\ op = NoOperation
    /\ thrown = FALSE
    /\ IdleCmp
    /\ IdleName
    /\ IdleAngle
    /\ IdleElement

\* List.prototype.addItem(item)
AddItem(item) ==
    /\ Ready
    /\ Len(array) < MaxSize
    /\ array' = Append(array, item)
    /\ UNCHANGED <<removedItems, before, op, thrown>>
    /\ UNCHANGED cmpVars
    /\ UNCHANGED nameVars
    /\ UNCHANGED angleVars
    /\ UNCHANGED elementVars

\* SortableCollection.prototype.removeItems(firstIndex, lastIndex)
RemoveItems(firstIndex, lastIndex) ==
    LET r == removeItems(array, firstIndex, lastIndex)
    IN  /\ Ready
        /\ array' = r.array
        /\ removedItems' = r.removed
        /\ before' = array
        /\ op' = [name |-> "removeItems", firstIndex |-> firstIndex,
                  lastIndex |-> lastIndex]
        /\ thrown' = FALSE
        /\ UNCHANGED cmpVars
        /\ UNCHANGED nameVars
        /\ UNCHANGED angleVars
        /\ UNCHANGED elementVars

\* List.prototype.removeItems(range) with range = [firstIndex..lastIndex]
RemoveRange(firstIndex, lastIndex) ==
    LET r == removeRange(array, firstIndex, lastIndex)
    IN  /\ Ready
        /\ array' = r.array
        /\ removedItems' = r.removed
        /\ before' = array
        /\ op' = [name |-> "removeRange", firstIndex |-> firstIndex,
                  lastIndex |-> lastIndex]
        /\ thrown' = FALSE
        /\ UNCHANGED cmpVars
        /\ UNCHANGED nameVars
        /\ UNCHANGED angleVars
        /\ UNCHANGED elementVars

\* sortItems(): MergeSorter.prototype.sortCollection(this)
SortItems ==
    LET sorted == sortArray(array)
    IN  /\ Ready
        /\ IF Len(array) > 1
           THEN IF sorted.t = "return" /\ sorted.v.k = "Array"
                THEN array' = sorted.v.items /\ thrown' = FALSE
                ELSE IF sorted.t = "return"
                \* collection.addItems(undefined) raises after removeAll()
                THEN array' = <<>> /\ thrown' = TRUE
                ELSE array' = array /\ thrown' = TRUE
           ELSE array' = array /\ thrown' = FALSE
        /\ removedItems' = <<>>
        /\ before' = array
        /\ op' = [name |-> "sortItems", firstIndex |-> 0, lastIndex |-> 0]
        /\ UNCHANGED cmpVars
        /\ UNCHANGED nameVars
        /\ UNCHANGED angleVars
        /\ UNCHANGED elementVars

\* the call returns: the list keeps its items and the caller moves on
Continue ==
    /\ ~Ready
    /\ op' = Idle
    /\ removedItems' = <<>>
    /\ before' = <<>>
    /\ thrown' = FALSE
    /\ UNCHANGED array
    /\ UNCHANGED cmpVars
    /\ UNCHANGED nameVars
    /\ UNCHANGED angleVars
    /\ UNCHANGED elementVars

Next ==
    \/ \E item \in Items : AddItem(item)
    \/ \E firstIndex \in IndexArguments, lastIndex \in IndexArguments :
          RemoveItems(firstIndex, lastIndex)
    \/ \E firstIndex \in IndexArguments, lastIndex \in IndexArguments :
          RemoveRange(firstIndex, lastIndex)
    \/ SortItems
    \/ Continue

Spec == InitList /\ [][Next]_vars

-----------------------------------------------------------------------------
(* Properties of the list, checked under Spec.                             *)

\* the number of positions of a sequence holding the item
Occurrences(items, item) == Cardinality({i \in 1..Len(items) : items[i] = item})

SameItems(xs, ys) ==
    /\ Len(xs) = Len(ys)
    /\ \A i \in 1..Len(xs) : Occurrences(xs, xs[i]) = Occurrences(ys, xs[i])

InOrder(items) ==
    \A i \in 1..(Len(items) - 1) :
        LET c == compareItems(items[i], items[i + 1])
        IN  c.t = "return" /\ c.v <= 0

\* C1: sortItems() on a list of two or more comparable items completes and
\* leaves the same items arranged so that every adjacent pair compares <= 0.
C1_SortItemsSorts ==
    op.name = "sortItems" /\ Len(before) >= 2
        => ~thrown /\ SameItems(array, before) /\ InOrder(array)

\* C2: removeItems(first, last) with 1 <= first <= last <= N returns the items
\* that were at positions first..last, in order, and leaves the others in
\* their original relative order.
C2_RemoveItemsRange ==
    op.name \in {"removeItems", "removeRange"}
        /\ 1 <= op.firstIndex /\ op.firstIndex <= op.lastIndex
        /\ op.lastIndex <= Len(before)
        => /\ removedItems = slice(before, op.firstIndex - 1, op.lastIndex)
           /\ array = slice(before, 0, op.firstIndex - 1)
                      \o slice(before, op.lastIndex, Len(before))

-----------------------------------------------------------------------------
(* The angle element.  Angles live on a grid on which Math.PI is PI units  *)
(* and 180 degrees are HalfTurn units of the degree scale.                 *)

PI == 8
HalfTurn == 180
NegZero == -9998    \* the double -0, told apart from 0 only by its encoding

\* the numeric value of a double that may be -0
valueOf(x) == IF x = NegZero THEN 0 ELSE x

\* isFinite(value)
isFinite(x) == IsFiniteNum(x)

\* Calculator.prototype.remainder: the sign of the result is the dividend's
remainder(x, y) ==
    LET magnitude == (IF valueOf(x) < 0 THEN -valueOf(x) ELSE valueOf(x)) % y
    IN  IF x = NegZero \/ valueOf(x) < 0
        THEN (IF magnitude = 0 THEN NegZero ELSE -magnitude)
        ELSE magnitude

\* Calculator.prototype.lockOnAngle: lock onto 0 and onto the poles
lockOnAngle(x) ==
    LET v == valueOf(x)
    IN  IF v # 0 /\ v <= LockLow /\ v >= -LockLow THEN 0
        ELSE IF v # PI /\ v - PI <= LockLow /\ v - PI >= -LockLow THEN PI
        ELSE IF v # -PI /\ v + PI <= LockLow /\ v + PI >= -LockLow THEN -PI
        ELSE x

\* the range normalization of the constructor with -PI left where it is
normalizeOpenAtPi(locked) ==
    LET twoPi == PI * 2
        reduced == IF valueOf(locked) < -twoPi \/ valueOf(locked) > twoPi
                   THEN remainder(locked, twoPi) ELSE locked
        ranged == IF valueOf(reduced) > PI THEN valueOf(reduced) - twoPi
                  ELSE IF valueOf(reduced) < -PI THEN valueOf(reduced) + twoPi
                  ELSE reduced
    IN  IF valueOf(ranged) = 0 THEN 0 ELSE ranged

\* the range normalization of the constructor: into (-PI..PI], -0 to 0
normalize(locked) ==
    LET twoPi == PI * 2
        reduced == IF valueOf(locked) < -twoPi \/ valueOf(locked) > twoPi
                   THEN remainder(locked, twoPi) ELSE locked
        ranged == IF valueOf(reduced) > PI THEN valueOf(reduced) - twoPi
                  ELSE IF valueOf(reduced) <= -PI THEN valueOf(reduced) + twoPi
                  ELSE reduced
    IN  IF valueOf(ranged) = 0 THEN 0 ELSE ranged

\* new Angle(value, parameters): the value stored, or the exception raised
Angle(value, parameters) ==
    LET defaulted == IF ~IsNaN(value) /\ valueOf(value) = 0 THEN 0 ELSE value
        radians == IF parameters = "degrees"
                   THEN (defaulted * PI) \div HalfTurn ELSE defaulted
    IN  IF ~isFinite(defaulted)
        THEN [done |-> TRUE, thrown |-> TRUE, value |-> 0]
        ELSE [done |-> TRUE, thrown |-> FALSE,
              value |-> normalize(lockOnAngle(radians))]

\* the values handed to the constructor, in radians and in degrees
RadianInputs ==
    ((-MaxTurns * PI)..(MaxTurns * PI)) \cup {NegZero, NaN, PosInf, NegInf}
DegreeInputs ==
    {45 * n : n \in (-MaxTurns * 4)..(MaxTurns * 4)} \cup {NegZero, NaN, PosInf}

NotConstructed == [done |-> FALSE, thrown |-> FALSE, value |-> 0]

InitAngle ==
    /\ units \in {"radians", "degrees"}
    /\ input \in (IF units = "degrees" THEN DegreeInputs ELSE RadianInputs)
    /\ angle = NotConstructed
    /\ IdleList
    /\ IdleCmp
    /\ IdleName
    /\ IdleElement

\* new Angle(input, [$units: units])
NewAngle ==
    /\ ~angle.done
    /\ angle' = Angle(input, units)
    /\ UNCHANGED <<input, units>>
    /\ UNCHANGED listVars
    /\ UNCHANGED cmpVars
    /\ UNCHANGED nameVars
    /\ UNCHANGED elementVars

NextAngle == NewAngle

SpecAngle == InitAngle /\ [][NextAngle]_vars

-----------------------------------------------------------------------------
(* Properties of the angle, checked under SpecAngle.                       *)

\* the constructor's argument in radians
inputRadians ==
    IF units = "degrees" THEN (valueOf(input) * PI) \div HalfTurn
    ELSE valueOf(input)

\* C10: every finite input yields an Angle whose value v satisfies
\* -PI < v <= PI; an input landing exactly on -PI is stored as PI and -0
\* is stored as +0.
C10_AngleRange ==
    angle.done /\ isFinite(valueOf(input))
        => /\ ~angle.thrown
           /\ angle.value # NegZero
           /\ -PI < angle.value /\ angle.value <= PI
           /\ (inputRadians + PI) % (2 * PI) = 0 => angle.value = PI
           /\ input = NegZero => angle.value = 0

\* one turn and a half backwards lands on -PI and is stored as PI
C10_Witness ==
    /\ angle.done
    /\ units = "radians"
    /\ input = -3 * PI
    /\ angle = [done |-> TRUE, thrown |-> FALSE, value |-> PI]

-----------------------------------------------------------------------------
(* Arithmetic on doubles and the precision utilities.                      *)

MaxReal == 3        \* Number parts and Percent values range over -MaxReal..MaxReal

\* first + second on doubles
jsAdd(a, b) ==
    IF IsNaN(a) \/ IsNaN(b) THEN NaN
    ELSE IF a = PosInf THEN (IF b = NegInf THEN NaN ELSE PosInf)
    ELSE IF a = NegInf THEN (IF b = PosInf THEN NaN ELSE NegInf)
    ELSE IF b = PosInf \/ b = NegInf THEN b
    ELSE a + b

\* first * second on doubles
jsMul(a, b) ==
    IF IsNaN(a) \/ IsNaN(b) THEN NaN
    ELSE IF ~IsFiniteNum(a) \/ ~IsFiniteNum(b)
    THEN (IF a = 0 \/ b = 0 THEN NaN
          ELSE IF (a > 0) = (b > 0) THEN PosInf ELSE NegInf)
    ELSE a * b

\* first / second on doubles, truncated onto the grid
jsDiv(a, b) ==
    IF IsNaN(a) \/ IsNaN(b) THEN NaN
    ELSE IF ~IsFiniteNum(a)
    THEN (IF ~IsFiniteNum(b) THEN NaN
          ELSE IF (a > 0) = (b >= 0) THEN PosInf ELSE NegInf)
    ELSE IF ~IsFiniteNum(b) THEN 0
    ELSE IF b = 0
    THEN (IF a = 0 THEN NaN ELSE IF a > 0 THEN PosInf ELSE NegInf)
    ELSE LET magnitude == (IF a < 0 THEN -a ELSE a) \div (IF b < 0 THEN -b ELSE b)
         IN  IF (a < 0) = (b < 0) THEN magnitude ELSE -magnitude

\* utilities.precision.sum / difference / product / quotient: the double
\* operation followed by the lock onto zero and infinity
precisionSum(a, b) == lockOnExtreme(jsAdd(a, b))
precisionDifference(a, b) == lockOnExtreme(jsSub(a, b))
precisionProduct(a, b) == lockOnExtreme(jsMul(a, b))
precisionQuotient(a, b) == lockOnExtreme(jsDiv(a, b))

-----------------------------------------------------------------------------
(* The Scalable functions of Angle, Percent and Duration.                  *)

\* an Angle without parameters (radians) whose getValue() is value
AngleOf(value) == [k |-> "Angle", value |-> value]

\* new Angle(value, angle.getParameters()) for the finite values that the
\* functions of Angle compute
newAngle(value) == AngleOf(Angle(value, "radians").value)

\* Angle.inverse
AngleInverse(a) == newAngle(jsSub(a.value, PI))

\* Angle.sum
AngleSum(a, b) == newAngle(jsAdd(a.value, b.value))

\* Angle.difference
AngleDifference(a, b) == newAngle(jsSub(a.value, b.value))

\* new Percent(value) with a value that is defined
Percent(value) == [k |-> "Percent", value |-> value]

\* Percent.inverse
PercentInverse(percent) == Percent(jsNegate(percent.value))

\* Percent.sum
PercentSum(a, b) == Percent(precisionSum(a.value, b.value))

\* Percent.difference
PercentDifference(a, b) == Percent(precisionDifference(a.value, b.value))

\* A moment duration keeps calendar months apart from milliseconds; a month
\* counts MonthLength units when the duration is read as milliseconds.
MonthLength == 30

asMilliseconds(d) == d.months * MonthLength + d.milliseconds

\* duration.toISOString(): the sign of the whole in front, each part signed
\* relative to it
toISOString(d) ==
    LET sign == IF asMilliseconds(d) < 0 THEN -1 ELSE 1
    IN  [sign |-> sign, months |-> sign * d.months,
         milliseconds |-> sign * d.milliseconds]

\* new Duration(isoString): moment.duration(isoString)
Duration(iso) ==
    [k |-> "Duration", months |-> iso.sign * iso.months,
     milliseconds |-> iso.sign * iso.milliseconds]

\* Duration.inverse: moment.duration().subtract(duration.getValue())
DurationInverse(d) ==
    Duration(toISOString([months |-> 0 - d.months,
                          milliseconds |-> 0 - d.milliseconds]))

\* Duration.sum: first.getValue().clone().add(second.getValue())
DurationSum(a, b) ==
    Duration(toISOString([months |-> a.months + b.months,
                          milliseconds |-> a.milliseconds + b.milliseconds]))

\* Duration.difference: first.getValue().clone().subtract(second.getValue())
DurationDifference(a, b) ==
    Duration(toISOString([months |-> a.months - b.months,
                          milliseconds |-> a.milliseconds - b.milliseconds]))

-----------------------------------------------------------------------------
(* The Numerical functions of Number (Complex).                            *)

\* Complex.prototype.comparedTo(that) === 0 on two finite numbers: equal
\* magnitudes and equal phases
isEqualTo(a, b) ==
    /\ a.re * a.re + a.im * a.im = b.re * b.re + b.im * b.im
    /\ a.re = b.re
    /\ a.im = b.im

\* Complex.inverse
ComplexInverse(complex) ==
    IF isUndefined(complex) THEN Complex(NaN, 0)
    ELSE IF isInfinite(complex) THEN Complex(PosInf, 0)
    ELSE IF isZero(complex) THEN Complex(0, 0)
    ELSE Complex(jsNegate(complex.re), jsNegate(complex.im))

\* Complex.reciprocal
ComplexReciprocal(complex) ==
    IF isUndefined(complex) THEN Complex(NaN, 0)
    ELSE IF isInfinite(complex) THEN Complex(0, 0)
    ELSE IF isZero(complex) THEN Complex(PosInf, 0)
    ELSE LET squared == precisionSum(precisionProduct(complex.re, complex.re),
                                     precisionProduct(complex.im, complex.im))
         IN  Complex(precisionQuotient(complex.re, squared),
                     jsNegate(precisionQuotient(complex.im, squared)))

\* Complex.conjugate
ComplexConjugate(complex) ==
    IF isUndefined(complex) THEN Complex(NaN, 0)
    ELSE IF isInfinite(complex) THEN Complex(PosInf, 0)
    ELSE IF isZero(complex) THEN Complex(0, 0)
    ELSE Complex(complex.re, jsNegate(complex.im))

\* the number 1: the first value of the grid above the lock onto zero
One == LockLow + 1

\* gamma(number) at the whole numbers of the grid: (number - 1)! from 1 up,
\* beyond every finite value at the poles 0, -1, -2, ...
RECURSIVE gamma(_)
gamma(number) ==
    IF number < 1 THEN PosInf
    ELSE IF number = 1 THEN 1
    ELSE jsMul(number - 1, gamma(number - 1))

\* Complex.factorial
ComplexFactorial(complex) ==
    IF isUndefined(complex) THEN Complex(NaN, 0)
    ELSE IF isInfinite(complex) THEN Complex(PosInf, 0)
    ELSE IF isZero(complex) THEN Complex(One, 0)
    ELSE Complex(gamma(complex.re + 1), 0)

\* Complex.sum with the test for Infinite ahead of the test for Undefined
ComplexSumInfiniteFirst(a, b) ==
    IF isInfinite(a) \/ isInfinite(b) THEN Complex(PosInf, 0)
    ELSE IF isUndefined(a) \/ isUndefined(b) THEN Complex(NaN, 0)
    ELSE IF isEqualTo(a, ComplexInverse(b)) THEN Complex(0, 0)
    ELSE Complex(precisionSum(a.re, b.re), precisionSum(a.im, b.im))

\* Complex.sum
ComplexSum(a, b) ==
    IF isUndefined(a) \/ isUndefined(b) THEN Complex(NaN, 0)
    ELSE IF isInfinite(a) \/ isInfinite(b) THEN Complex(PosInf, 0)
    ELSE IF isEqualTo(a, ComplexInverse(b)) THEN Complex(0, 0)
    ELSE Complex(precisionSum(a.re, b.re), precisionSum(a.im, b.im))

\* Complex.difference
ComplexDifference(a, b) == ComplexSum(a, ComplexInverse(b))

\* Complex.scaled
ComplexScaled(complex, scale) ==
    IF isUndefined(complex) \/ IsNaN(scale) THEN Complex(NaN, 0)
    ELSE IF isZero(complex) /\ ~IsFiniteNum(scale) THEN Complex(NaN, 0)
    ELSE IF isInfinite(complex) /\ scale = 0 THEN Complex(NaN, 0)
    ELSE IF isInfinite(complex) \/ ~IsFiniteNum(scale) THEN Complex(PosInf, 0)
    ELSE IF isZero(complex) \/ scale = 0 THEN Complex(0, 0)
    ELSE Complex(precisionProduct(complex.re, scale),
                 precisionProduct(complex.im, scale))

\* Complex.product without the case of Zero times Infinite
ComplexProductInfiniteAbsorbs(a, b) ==
    IF isUndefined(a) \/ isUndefined(b) THEN Complex(NaN, 0)
    ELSE IF isInfinite(a) /\ isZero(b) THEN Complex(NaN, 0)
    ELSE IF isInfinite(a) \/ isInfinite(b) THEN Complex(PosInf, 0)
    ELSE IF isZero(a) \/ isZero(b) THEN Complex(0, 0)
    ELSE Complex(precisionDifference(precisionProduct(a.re, b.re),
                                     precisionProduct(a.im, b.im)),
                 precisionSum(precisionProduct(a.re, b.im),
                              lockOnExtreme(jsMul(a.im, b.re))))

\* Complex.product
ComplexProduct(a, b) ==
    IF isUndefined(a) \/ isUndefined(b) THEN Complex(NaN, 0)
    ELSE IF isZero(a) /\ isInfinite(b) THEN Complex(NaN, 0)
    ELSE IF isInfinite(a) /\ isZero(b) THEN Complex(NaN, 0)
    ELSE IF isInfinite(a) \/ isInfinite(b) THEN Complex(PosInf, 0)
    ELSE IF isZero(a) \/ isZero(b) THEN Complex(0, 0)
    ELSE Complex(precisionDifference(precisionProduct(a.re, b.re),
                                     precisionProduct(a.im, b.im)),
                 precisionSum(precisionProduct(a.re, b.im),
                              lockOnExtreme(jsMul(a.im, b.re))))

\* Complex.quotient
ComplexQuotient(a, b) == ComplexProduct(a, ComplexReciprocal(b))

\* utilities.precision.remainder: the % of doubles, whose result carries the
\* sign of the dividend
precisionRemainder(a, b) ==
    IF IsNaN(a) \/ IsNaN(b) \/ ~IsFiniteNum(a) \/ b = 0 THEN NaN
    ELSE IF ~IsFiniteNum(b) THEN a
    ELSE LET magnitude == (IF a < 0 THEN -a ELSE a) % (IF b < 0 THEN -b ELSE b)
         IN  lockOnExtreme(IF a < 0 THEN -magnitude ELSE magnitude)

\* Complex.remainder
ComplexRemainder(a, b) ==
    IF isUndefined(a) \/ isUndefined(b) THEN Complex(NaN, 0)
    ELSE IF isInfinite(a) /\ isInfinite(b) THEN Complex(NaN, 0)
    ELSE IF isZero(a) /\ isZero(b) THEN Complex(NaN, 0)
    ELSE IF isInfinite(b) THEN Complex(0, 0)
    ELSE IF isZero(b) THEN Complex(PosInf, 0)
    ELSE Complex(precisionRemainder(a.re, b.re), 0)

\* Complex.exponential; general is what exp(exponent * ln(base)) evaluates
\* to when no special case applies
ComplexExponential(base, exponent, general) ==
    IF isUndefined(base) \/ isUndefined(exponent) THEN Complex(NaN, 0)
    ELSE IF isZero(base) /\ (isZero(exponent) \/ isInfinite(exponent))
    THEN Complex(NaN, 0)
    ELSE IF isInfinite(base) /\ isZero(exponent) THEN Complex(NaN, 0)
    ELSE IF isInfinite(exponent) THEN Complex(PosInf, 0)
    ELSE IF isZero(exponent) THEN Complex(One, 0)
    ELSE general

\* Complex.logarithm; general is what ln(value) / ln(base) evaluates to when
\* no special case applies
ComplexLogarithm(base, value, general) ==
    IF isUndefined(base) \/ isUndefined(value) THEN Complex(NaN, 0)
    ELSE IF isZero(base) /\ (isZero(value) \/ isInfinite(value))
    THEN Complex(NaN, 0)
    ELSE IF isInfinite(base) /\ (isZero(value) \/ isInfinite(value))
    THEN Complex(NaN, 0)
    ELSE IF isInfinite(value) THEN Complex(PosInf, 0)
    ELSE IF isZero(value) THEN Complex(PosInf, 0)
    ELSE general

-----------------------------------------------------------------------------
(* The caller of the Scalable functions: it inverts x, adds x to its own   *)
(* inverse, subtracts y from x and adds x to the inverse of y.             *)

ScalableTypes == {"Angle", "Number", "Percent", "Duration"}

\* the parts of the Numbers and the values of the Percents under test
Reals == (-MaxReal)..MaxReal

\* the Numbers under test, one in each state and the finite ones
Numbers ==
    {Complex(re, im) : re \in Reals \cup {NaN, PosInf}, im \in Reals}

\* the Angles under test: every value the constructor stores
Angles == {newAngle(v) : v \in (-PI)..PI}

Percents == {Percent(v) : v \in Reals}

Durations ==
    {Duration(toISOString([months |-> m, milliseconds |-> ms])) :
        m \in (-1)..1, ms \in (-MaxReal)..MaxReal}

ElementsOf(t) ==
    CASE t = "Angle" -> Angles
      [] t = "Number" -> Numbers
      [] t = "Percent" -> Percents
      [] t = "Duration" -> Durations

\* <Type>.inverse, <Type>.sum and <Type>.difference
inverse(a) ==
    CASE a.k = "Angle" -> AngleInverse(a)
      [] a.k = "Number" -> ComplexInverse(a)
      [] a.k = "Percent" -> PercentInverse(a)
      [] a.k = "Duration" -> DurationInverse(a)

sum(a, b) ==
    CASE a.k = "Angle" -> AngleSum(a, b)
      [] a.k = "Number" -> ComplexSum(a, b)
      [] a.k = "Percent" -> PercentSum(a, b)
      [] a.k = "Duration" -> DurationSum(a, b)

difference(a, b) ==
    CASE a.k = "Angle" -> AngleDifference(a, b)
      [] a.k = "Number" -> ComplexDifference(a, b)
      [] a.k = "Percent" -> PercentDifference(a, b)
      [] a.k = "Duration" -> DurationDifference(a, b)

NotScaled == [done |-> FALSE]

InitScalable ==
    /\ type \in ScalableTypes
    /\ subject \in ElementsOf(type)
    /\ other \in ElementsOf(type)
    /\ factor = 0
    /\ outcome = NotScaled
    /\ IdleList
    /\ IdleCmp
    /\ IdleName
    /\ IdleAngle

\* the four calls of the caller
Scale ==
    /\ ~outcome.done
    /\ outcome' = [done |-> TRUE,
                   inverse |-> inverse(subject),
                   sumWithInverse |-> sum(subject, inverse(subject)),
                   difference |-> difference(subject, other),
                   sumWithInverseOfOther |-> sum(subject, inverse(other))]
    /\ UNCHANGED <<type, subject, other, factor>>
    /\ UNCHANGED listVars
    /\ UNCHANGED cmpVars
    /\ UNCHANGED nameVars
    /\ UNCHANGED angleVars

NextScalable == Scale

SpecScalable == InitScalable /\ [][NextScalable]_vars

-----------------------------------------------------------------------------
(* Properties of the Scalable functions, checked under SpecScalable.       *)

\* C11: for every Angle x, Angle.sum(x, Angle.inverse(x)) is the zero Angle.
C11_AngleInverseLaw ==
    outcome.done /\ type = "Angle" => outcome.sumWithInverse = AngleOf(0)

\* C12: for every Scalable type and all x, y of it, difference(x, y) equals
\* sum(x, inverse(y)).
C12_DifferenceIsSumOfInverse ==
    outcome.done => outcome.difference = outcome.sumWithInverseOfOther

-----------------------------------------------------------------------------
(* The constructor of Number (Complex) on every kind of argument.          *)

\* Angle.cosine and Angle.sine at the quarter turns, where they are exact
cosine(phase) ==
    IF phase.value = 0 THEN 1 ELSE IF phase.value = PI THEN -1 ELSE 0

sine(phase) ==
    IF 2 * phase.value = PI THEN 1 ELSE IF 2 * phase.value = -PI THEN -1 ELSE 0

\* value || 0 unless the value is NaN: the default of a part left out
defaultPart(value) ==
    IF value.k = "undefined" THEN 0 ELSE value.n

\* new Complex(real, imaginary) on JavaScript values: the imaginary part may
\* be left out, a double, or an Angle (polar form)
newComplex(real, imaginary) ==
    LET locked == lockOnExtreme(defaultPart(real))
    IN  IF imaginary.k = "Angle"
        THEN LET magnitude == IF ~IsNaN(locked) /\ locked < 0
                              THEN jsNegate(locked) ELSE locked
                 phase == IF ~IsNaN(locked) /\ locked < 0
                          THEN AngleInverse(imaginary) ELSE imaginary
             IN  Complex(jsMul(magnitude, cosine(phase)),
                         jsMul(magnitude, sine(phase)))
        ELSE Complex(locked, defaultPart(imaginary))

\* the doubles handed to the constructor, the lock-on bands included
RealArguments ==
    {Undefined} \cup {Num(n) : n \in ((-LockHigh)..LockHigh)
                                      \cup {NaN, PosInf, NegInf}}

\* the quarter turns
Phases == {newAngle(q * (PI \div 2)) : q \in (-1)..2}

ImaginaryArguments == RealArguments \cup Phases

NotBuilt == [done |-> FALSE]

InitComplex ==
    /\ type = "Number"
    /\ subject \in RealArguments
    /\ other \in ImaginaryArguments
    /\ factor = 0
    /\ outcome = NotBuilt
    /\ IdleList
    /\ IdleCmp
    /\ IdleName
    /\ IdleAngle

\* new Complex(subject, other)
NewComplex ==
    /\ ~outcome.done
    /\ outcome' = [done |-> TRUE, number |-> newComplex(subject, other)]
    /\ UNCHANGED <<type, subject, other, factor>>
    /\ UNCHANGED listVars
    /\ UNCHANGED cmpVars
    /\ UNCHANGED nameVars
    /\ UNCHANGED angleVars

NextComplex == NewComplex

SpecComplex == InitComplex /\ [][NextComplex]_vars

-----------------------------------------------------------------------------
(* Properties of the constructor of Number, checked under SpecComplex.     *)

\* one of the arguments is the double NaN
SomePartIsNaN ==
    \/ subject.k = "number" /\ IsNaN(subject.n)
    \/ other.k = "number" /\ IsNaN(other.n)

\* one of the arguments is Infinity or -Infinity
SomePartIsInfinity ==
    \/ subject.k = "number" /\ subject.n \in {PosInf, NegInf}
    \/ other.k = "number" /\ other.n \in {PosInf, NegInf}

\* C13: after construction, a NaN part makes both parts NaN; otherwise an
\* infinite part makes both parts +Infinity; and at most one of isUndefined,
\* isInfinite and isZero holds.
C13_CanonicalNumber ==
    outcome.done =>
        LET z == outcome.number
        IN  /\ SomePartIsNaN => IsNaN(z.re) /\ IsNaN(z.im)
            /\ ~SomePartIsNaN /\ SomePartIsInfinity
                   => z.re = PosInf /\ z.im = PosInf
            /\ Cardinality({p \in {"undefined", "infinite", "zero"} :
                   \/ p = "undefined" /\ isUndefined(z)
                   \/ p = "infinite" /\ isInfinite(z)
                   \/ p = "zero" /\ isZero(z)}) <= 1

-----------------------------------------------------------------------------
(* The caller of the Numerical functions of Number: every function is      *)
(* applied to the operands x and y and to the scale factor.                *)

\* the scale factors handed to Complex.scaled
Factors == {NaN, PosInf, NegInf, 0, -2, 3}

\* what the general case of exponential and logarithm may evaluate to: a
\* Number in each of the four states
GeneralResults == {Complex(NaN, 0), Complex(PosInf, 0), Complex(0, 0),
                   Complex(2, 3)}

NotCalculated == [done |-> FALSE]

InitNumber ==
    /\ type = "Number"
    /\ subject \in Numbers
    /\ other \in Numbers
    /\ factor \in Factors
    /\ outcome = NotCalculated
    /\ IdleList
    /\ IdleCmp
    /\ IdleName
    /\ IdleAngle

\* the caller applies the twelve functions
Calculate(general) ==
    /\ ~outcome.done
    /\ outcome' = [done |-> TRUE,
                   inverse |-> ComplexInverse(subject),
                   reciprocal |-> ComplexReciprocal(subject),
                   conjugate |-> ComplexConjugate(subject),
                   factorial |-> ComplexFactorial(subject),
                   sum |-> ComplexSum(subject, other),
                   difference |-> ComplexDifference(subject, other),
                   scaled |-> ComplexScaled(subject, factor),
                   product |-> ComplexProduct(subject, other),
                   quotient |-> ComplexQuotient(subject, other),
                   remainder |-> ComplexRemainder(subject, other),
                   exponential |-> ComplexExponential(subject, other, general),
                   logarithm |-> ComplexLogarithm(subject, other, general)]
    /\ UNCHANGED <<type, subject, other, factor>>
    /\ UNCHANGED listVars
    /\ UNCHANGED cmpVars
    /\ UNCHANGED nameVars
    /\ UNCHANGED angleVars

NextNumber == \E general \in GeneralResults : Calculate(general)

SpecNumber == InitNumber /\ [][NextNumber]_vars

-----------------------------------------------------------------------------
(* Properties of the Numerical functions, checked under SpecNumber.        *)

\* C14: Undefined propagates through every function of Number: an Undefined
\* operand, or a NaN scale factor, makes the result Undefined.
C14_UndefinedPropagates ==
    outcome.done =>
        /\ isUndefined(subject) =>
               /\ isUndefined(outcome.inverse)
               /\ isUndefined(outcome.reciprocal)
               /\ isUndefined(outcome.conjugate)
               /\ isUndefined(outcome.factorial)
        /\ isUndefined(subject) \/ isUndefined(other) =>
               /\ isUndefined(outcome.sum)
               /\ isUndefined(outcome.difference)
               /\ isUndefined(outcome.product)
               /\ isUndefined(outcome.quotient)
               /\ isUndefined(outcome.remainder)
               /\ isUndefined(outcome.exponential)
               /\ isUndefined(outcome.logarithm)
        /\ isUndefined(subject) \/ IsNaN(factor) => isUndefined(outcome.scaled)

\* a finite Number met an Undefined one and every binary result is Undefined
C14_Witness ==
    /\ outcome.done
    /\ subject = Complex(2, 3)
    /\ isUndefined(other)
    /\ isUndefined(outcome.sum)
    /\ isUndefined(outcome.quotient)
    /\ isUndefined(outcome.logarithm)

\* C15: without Undefined operands, Infinite times Zero is Undefined in either
\* order; otherwise a sum or product with an Infinite operand is Infinite;
\* otherwise a product with a Zero operand is Zero; scaled(x, factor) follows
\* the same table with the factor read as zero, finite or infinite.
C15_InfiniteZeroTable ==
    outcome.done /\ ~isUndefined(subject) /\ ~isUndefined(other) =>
        LET infiniteTimesZero ==
                \/ isInfinite(subject) /\ isZero(other)
                \/ isZero(subject) /\ isInfinite(other)
            someInfinite == isInfinite(subject) \/ isInfinite(other)
            someZero == isZero(subject) \/ isZero(other)
            factorInfinite == factor \in {PosInf, NegInf}
            scaledInfiniteTimesZero ==
                \/ isInfinite(subject) /\ factor = 0
                \/ isZero(subject) /\ factorInfinite
        IN  /\ infiniteTimesZero => isUndefined(outcome.product)
            /\ someInfinite => isInfinite(outcome.sum)
            /\ ~infiniteTimesZero /\ someInfinite => isInfinite(outcome.product)
            /\ ~someInfinite /\ someZero => isZero(outcome.product)
            /\ ~IsNaN(factor) =>
                   /\ scaledInfiniteTimesZero => isUndefined(outcome.scaled)
                   /\ ~scaledInfiniteTimesZero
                          /\ (isInfinite(subject) \/ factorInfinite)
                          => isInfinite(outcome.scaled)
                   /\ ~isInfinite(subject) /\ ~factorInfinite
                          /\ (isZero(subject) \/ factor = 0)
                          => isZero(outcome.scaled)

\* Zero met Infinite: the product is Undefined and the sum Infinite, and the
\* infinite factor makes the scaled Zero Undefined
C15_Witness ==
    /\ outcome.done
    /\ isZero(subject)
    /\ isInfinite(other)
    /\ factor = NegInf
    /\ isUndefined(outcome.product)
    /\ isInfinite(outcome.sum)
    /\ isUndefined(outcome.scaled)

-----------------------------------------------------------------------------
(* The probability element.  Probabilities live on a grid on which the     *)
(* probability 1 is Unit; the arguments under test are the multiples of    *)
(* 1 / MaxParts, whose products are exact on the grid.                     *)

MaxParts == 4       \* the probabilities under test are k / MaxParts

Unit == MaxParts * MaxParts

\* throw exception: the call raises the given object
Raise(exception) == [t |-> "throw", v |-> exception]

\* new Error(message): a JavaScript error, which carries a message only
Error(message) == [k |-> "Error", message |-> message]

\* the double that a JavaScript value is read as by <, > and *
coerced(value) ==
    CASE value.k = "number" -> value.n
      [] value.k = "boolean" -> IF value.b THEN Unit ELSE 0
      [] OTHER -> NaN     \* 'true' and 'false' are not numeric strings

\* new Probability(value): the instance, or the Error raised
Probability(value) ==
    LET defaulted == IF value.k = "undefined" THEN Bool(FALSE) ELSE value
        converted == IF defaulted.k = "boolean"
                     THEN Num(IF defaulted.b THEN Unit ELSE 0) ELSE defaulted
        number == coerced(converted)
    IN  IF ~IsNaN(number) /\ (number < 0 \/ number > Unit)
        THEN Raise(Error(<<"BUG: An invalid probability value was passed to the constructor: ", converted>>))
        ELSE Return([k |-> "Probability", value |-> converted])

\* Probability.FALSE and Probability.TRUE
ProbabilityFALSE == Probability(Str(<<"f", "a", "l", "s", "e">>)).v
ProbabilityTRUE == Probability(Str(<<"t", "r", "u", "e">>)).v

\* Probability.prototype.toBoolean
probabilityToBoolean(probability) ==
    LET number == coerced(probability.value)
    IN  ~IsNaN(number) /\ 2 * number >= Unit

\* utilities.precision.product of two probabilities on the grid
probabilityProduct(p1, p2) ==
    IF IsNaN(jsMul(p1, p2)) THEN NaN ELSE jsMul(p1, p2) \div Unit

\* Probability.not
ProbabilityNot(probability) ==
    Probability(Num(jsSub(Unit, coerced(probability.value))))

\* Probability.and
ProbabilityAnd(probability1, probability2) ==
    Probability(Num(probabilityProduct(coerced(probability1.value),
                                       coerced(probability2.value))))

\* Probability.sans
ProbabilitySans(probability1, probability2) ==
    Probability(Num(probabilityProduct(coerced(probability1.value),
                        jsSub(Unit, coerced(probability2.value)))))

\* Probability.or
ProbabilityOr(probability1, probability2) ==
    LET p1 == coerced(probability1.value)
        p2 == coerced(probability2.value)
    IN  Probability(Num(jsAdd(jsAdd(p1, p2),
                              probabilityProduct(jsNegate(p1), p2))))

\* Probability.xor
ProbabilityXor(probability1, probability2) ==
    LET p1 == coerced(probability1.value)
        p2 == coerced(probability2.value)
    IN  Probability(Num(jsAdd(jsAdd(p1, p2),
                              jsMul(-2, probabilityProduct(p1, p2)))))

\* the values handed to the constructor: nothing, booleans and doubles inside
\* and outside the interval
ProbabilityArguments ==
    {Undefined, Bool(FALSE), Bool(TRUE)}
    \cup {Num(k * MaxParts) : k \in (-1)..(MaxParts + 1)}
    \cup {Num(NaN), Num(PosInf), Num(NegInf)}

NotConstructedYet == [stage |-> "none"]

InitProbability ==
    /\ type = "Probability"
    /\ subject \in ProbabilityArguments
    /\ other \in ProbabilityArguments
    /\ factor = 0
    /\ outcome = NotConstructedYet
    /\ IdleList
    /\ IdleCmp
    /\ IdleName
    /\ IdleAngle

\* p = new Probability(subject) and q = new Probability(other), each call
\* returning the instance or raising
NewProbability ==
    /\ outcome.stage = "none"
    /\ outcome' = [stage |-> "constructed",
                   p |-> Probability(subject),
                   q |-> Probability(other)]
    /\ UNCHANGED <<type, subject, other, factor>>
    /\ UNCHANGED listVars
    /\ UNCHANGED cmpVars
    /\ UNCHANGED nameVars
    /\ UNCHANGED angleVars

\* the caller applies the functions of Probability to the instances p and q
Combine ==
    /\ outcome.stage = "constructed"
    /\ outcome.p.t = "return"
    /\ outcome.q.t = "return"
    /\ LET p == outcome.p.v
           q == outcome.q.v
       IN  outcome' = [stage |-> "combined",
                       p |-> outcome.p,
                       q |-> outcome.q,
                       toBoolean |-> probabilityToBoolean(p),
                       not |-> ProbabilityNot(p),
                       and |-> ProbabilityAnd(p, q),
                       sans |-> ProbabilitySans(p, q),
                       or |-> ProbabilityOr(p, q),
                       xor |-> ProbabilityXor(p, q),
                       andTRUE |-> ProbabilityAnd(p, ProbabilityTRUE),
                       orFALSE |-> ProbabilityOr(p, ProbabilityFALSE)]
    /\ UNCHANGED <<type, subject, other, factor>>
    /\ UNCHANGED listVars
    /\ UNCHANGED cmpVars
    /\ UNCHANGED nameVars
    /\ UNCHANGED angleVars

NextProbability == NewProbability \/ Combine

SpecProbability == InitProbability /\ [][NextProbability]_vars

-----------------------------------------------------------------------------
(* Properties of the probability, checked under SpecProbability.           *)

\* the value held is a real number of the closed interval [0, 1]
InUnitInterval(value) ==
    value.k = "number" /\ ~IsNaN(value.n) /\ 0 <= value.n /\ value.n <= Unit

\* the call returned an instance holding a value of the interval
ValidInstance(r) == r.t = "return" /\ InUnitInterval(r.v.value)

\* the argument is a double outside the interval
OutsideInterval(argument) ==
    argument.k = "number" /\ ~IsNaN(argument.n)
        /\ (argument.n < 0 \/ argument.n > Unit)

\* C16: every Probability that exists - the constants TRUE and FALSE, every
\* constructed instance, every result of not/and/sans/or/xor on valid
\* probabilities - holds a real value in [0, 1], and constructing one from a
\* value outside [0, 1] raises.
C16_ProbabilityInUnitInterval ==
    /\ outcome.stage \in {"constructed", "combined"} =>
           /\ InUnitInterval(ProbabilityTRUE.value)
           /\ InUnitInterval(ProbabilityFALSE.value)
           /\ outcome.p.t = "return" => InUnitInterval(outcome.p.v.value)
           /\ outcome.q.t = "return" => InUnitInterval(outcome.q.v.value)
           /\ OutsideInterval(subject) => outcome.p.t = "throw"
           /\ OutsideInterval(other) => outcome.q.t = "throw"
    /\ outcome.stage = "combined"
           /\ ValidInstance(outcome.p) /\ ValidInstance(outcome.q) =>
           /\ ValidInstance(outcome.not)
           /\ ValidInstance(outcome.and)
           /\ ValidInstance(outcome.sans)
           /\ ValidInstance(outcome.or)
           /\ ValidInstance(outcome.xor)

\* C17: for every Probability p, and(p, TRUE) equals p and or(p, FALSE)
\* equals p.
C17_TrueFalseIdentities ==
    outcome.stage = "combined" /\ ValidInstance(outcome.p) =>
        /\ outcome.andTRUE = outcome.p
        /\ outcome.orFALSE = outcome.p

\* C18: toBoolean() is false exactly when the probability is 0.
C18_ToBooleanIsNonZero ==
    outcome.stage = "combined" /\ ValidInstance(outcome.p) =>
        (outcome.toBoolean <=> outcome.p.v.value.n # 0)

-----------------------------------------------------------------------------
(* Construction failures of Name, Probability and Angle.                   *)

\* new Exception(attributes): a component holding the attributes
Exception(attributes) == [k |-> "Exception", attributes |-> attributes]

\* new Name(value): the instance, or the Exception raised
Name(value) ==
    IF value.k # "Array" \/ Len(value.items) = 0
    THEN Raise(Exception([module |-> "/bali/elements/Name",
                          procedure |-> "$Name",
                          exception |-> "$invalidParameter",
                          parameter |-> value,
                          text |-> "An invalid name value was passed to the constructor."]))
    ELSE Return(NameOf(value.items))

\* new Angle(value): the instance, or the Exception raised
AngleOrException(value) ==
    LET built == Angle(value.n, "radians")
    IN  IF built.thrown
        THEN Raise(Exception([module |-> "/bali/elements/Angle",
                              procedure |-> "$Angle",
                              exception |-> "$invalidParameter",
                              parameter |-> value,
                              text |-> "An invalid angle value was passed to the constructor."]))
        ELSE Return(AngleOf(built.value))

ConstructedTypes == {"Name", "Probability", "Angle"}

\* the values handed to each constructor, valid and invalid
NameArguments ==
    {Undefined, Num(0), Num(2), Str(<<>>), Str(<<"a">>)}
    \cup {ArrayOf(ids) : ids \in UNION {[1..n -> {<<"a">>, <<"b">>}] : n \in 0..MaxLen}}

AngleArguments == {Num(v) : v \in RadianInputs}

ArgumentsOf(t) ==
    CASE t = "Name" -> NameArguments
      [] t = "Probability" -> ProbabilityArguments
      [] t = "Angle" -> AngleArguments

\* new <type>(value)
construct(t, value) ==
    CASE t = "Name" -> Name(value)
      [] t = "Probability" -> Probability(value)
      [] t = "Angle" -> AngleOrException(value)

InitConstruct ==
    /\ type \in ConstructedTypes
    /\ subject \in ArgumentsOf(type)
    /\ other = Undefined
    /\ factor = 0
    /\ outcome = [done |-> FALSE]
    /\ IdleList
    /\ IdleCmp
    /\ IdleName
    /\ IdleAngle

\* the caller runs new <type>(subject) inside try/catch
Construct ==
    /\ ~outcome.done
    /\ outcome' = [done |-> TRUE, result |-> construct(type, subject)]
    /\ UNCHANGED <<type, subject, other, factor>>
    /\ UNCHANGED listVars
    /\ UNCHANGED cmpVars
    /\ UNCHANGED nameVars
    /\ UNCHANGED angleVars

NextConstruct == Construct

SpecConstruct == InitConstruct /\ [][NextConstruct]_vars

-----------------------------------------------------------------------------
(* Properties of construction failures, checked under SpecConstruct.       *)

\* the argument violates the invariant of the type
InvalidArgument ==
    CASE type = "Name" -> subject.k # "Array" \/ Len(subject.items) = 0
      [] type = "Probability" -> OutsideInterval(subject)
      [] type = "Angle" -> ~IsFiniteNum(valueOf(subject.n))

\* the object raised is an Exception component with the structured payload
StructuredException(e) ==
    /\ e.k = "Exception"
    /\ {"module", "procedure", "parameter", "text"} \subseteq DOMAIN e.attributes
    /\ e.attributes.parameter = subject

\* C19: every construction validation failure raises an Exception component
\* carrying the structured payload, and yields no instance.
C19_ConstructionFailureIsException ==
    outcome.done /\ InvalidArgument =>
        /\ outcome.result.t = "throw"
        /\ StructuredException(outcome.result.v)

-----------------------------------------------------------------------------
(* The shuffle of a list.  The random source is a choice function that     *)
(* gives, for every index from the size down to 2, the index drawn.        *)

MaxShuffle == 4     \* longest list shuffled

\* getItem reading the array at the index as given
getItemWithoutNormalizing(items, index) ==
    elementAt(items, index - 1)

\* List.prototype.getItem
getItem(items, index) ==
    elementAt(items, normalizeIndex(index, Len(items)) - 1)

\* List.prototype.setItem
setItem(items, index, item) ==
    [items EXCEPT ![normalizeIndex(index, Len(items))] = item]

\* the draws of utilities.random.index(index), in the range [1..index], for
\* index = size down to 2
ChoicesOf(size) ==
    {choices \in [2..size -> 1..size] : \A index \in 2..size : choices[index] <= index}

\* the loop of shuffleItems that leaves the first two positions as they are
RECURSIVE shuffleLoopStoppingEarly(_, _, _)
shuffleLoopStoppingEarly(items, index, choices) ==
    IF index > 2
    THEN LET randomIndex == choices[index]
             item == getItem(items, index)
             moved == setItem(items, index, getItem(items, randomIndex))
         IN  shuffleLoopStoppingEarly(setItem(moved, randomIndex, item),
                                      index - 1, choices)
    ELSE items

\* the loop of List.prototype.shuffleItems
RECURSIVE shuffleLoop(_, _, _)
shuffleLoop(items, index, choices) ==
    IF index > 1
    THEN LET randomIndex == choices[index]
             item == getItem(items, index)
             moved == setItem(items, index, getItem(items, randomIndex))
         IN  shuffleLoop(setItem(moved, randomIndex, item), index - 1, choices)
    ELSE items

\* List.prototype.shuffleItems
shuffleItems(items, choices) == shuffleLoop(items, Len(items), choices)

\* the loop of RandomSorter.prototype.randomizeArray, with zero based
\* indexing: Math.floor(Math.random() * index) is choices[index] - 1
RECURSIVE randomizeLoop(_, _, _)
randomizeLoop(items, index, choices) ==
    IF index > 1
    THEN LET randomIndex == choices[index] - 1
             swap == elementAt(items, index - 1)
             moved == [items EXCEPT ![index] = elementAt(items, randomIndex)]
         IN  randomizeLoop([moved EXCEPT ![randomIndex + 1] = swap],
                           index - 1, choices)
    ELSE items

\* RandomSorter.prototype.randomizeArray
randomizeArray(items, choices) == randomizeLoop(items, Len(items), choices)

\* the items of the lists shuffled, all different
ShuffledItems == {Complex(v + 1, 0) : v \in 1..MaxShuffle}

InitShuffle ==
    /\ array \in {items \in UNION {[1..n -> ShuffledItems] : n \in 0..MaxShuffle} :
                     \A i, j \in 1..Len(items) : items[i] = items[j] => i = j}
    /\ removedItems = <<>>
    /\ before = <<>>
    /\ op = NoOperation
    /\ thrown = FALSE
    /\ IdleCmp
    /\ IdleName
    /\ IdleAngle
    /\ IdleElement

\* List.prototype.shuffleItems()
ShuffleItems(choices) ==
    /\ op = NoOperation
    /\ array' = shuffleItems(array, choices)
    /\ before' = array
    /\ op' = [name |-> "shuffleItems", firstIndex |-> 0, lastIndex |-> 0]
    /\ UNCHANGED <<removedItems, thrown>>
    /\ UNCHANGED cmpVars
    /\ UNCHANGED nameVars
    /\ UNCHANGED angleVars
    /\ UNCHANGED elementVars

\* RandomSorter.prototype.randomizeArray(array)
RandomizeArray(choices) ==
    /\ op = NoOperation
    /\ array' = randomizeArray(array, choices)
    /\ before' = array
    /\ op' = [name |-> "randomizeArray", firstIndex |-> 0, lastIndex |-> 0]
    /\ UNCHANGED <<removedItems, thrown>>
    /\ UNCHANGED cmpVars
    /\ UNCHANGED nameVars
    /\ UNCHANGED angleVars
    /\ UNCHANGED elementVars

NextShuffle ==
    \/ \E choices \in ChoicesOf(Len(array)) : ShuffleItems(choices)
    \/ \E choices \in ChoicesOf(Len(array)) : RandomizeArray(choices)

SpecShuffle == InitShuffle /\ [][NextShuffle]_vars

-----------------------------------------------------------------------------
(* Properties of the shuffle, checked under SpecShuffle.                   *)

\* the positions 1..size in order
Positions(size) == [i \in 1..size |-> i]

\* size!
RECURSIVE Factorial(_)
Factorial(size) == IF size <= 1 THEN 1 ELSE size * Factorial(size - 1)

\* the arrangements of the positions that the shuffle produces over all draws
ShuffleOutcomes(size) ==
    {shuffleItems(Positions(size), choices) : choices \in ChoicesOf(size)}

RandomizeOutcomes(size) ==
    {randomizeArray(Positions(size), choices) : choices \in ChoicesOf(size)}

\* every outcome is an arrangement of all the positions
ArePermutations(outcomes, size) ==
    \A arrangement \in outcomes : {arrangement[i] : i \in 1..size} = 1..size

\* C20: the shuffle leaves a permutation of the original items; over the
\* draws of index from n down to 2 in [1..index] every one of the n!
\* permutations is produced, each by exactly one sequence of draws.
C20_ShuffleIsUniformPermutation ==
    op.name \in {"shuffleItems", "randomizeArray"} =>
        LET size == Len(before)
            outcomes == IF op.name = "shuffleItems"
                        THEN ShuffleOutcomes(size) ELSE RandomizeOutcomes(size)
        IN  /\ SameItems(array, before)
            /\ ArePermutations(outcomes, size)
            /\ Cardinality(ChoicesOf(size)) = Factorial(size)
            /\ Cardinality(outcomes) = Factorial(size)

\* a list of at least three items came out of shuffleItems reversed
C20_Witness ==
    /\ op.name = "shuffleItems"
    /\ Len(before) >= 3
    /\ \A i \in 1..Len(before) : array[i] = before[Len(before) + 1 - i]

-----------------------------------------------------------------------------
(* Reading a list by index.  The list is filled by addItem, so the order   *)
(* of the array is the order of insertion.                                 *)

\* the index handed to getItem: both signs, zero and one past either end
OrdinalArguments == (-(MaxSize + 1))..(MaxSize + 1)

NotRead == [done |-> FALSE]

\* List.prototype.getItem(index): before records the list that was read
GetItem(index) ==
    /\ Ready
    /\ before' = array
    /\ outcome' = [done |-> TRUE, index |-> index, item |-> getItem(array, index)]
    /\ UNCHANGED <<array, removedItems, op, thrown>>
    /\ UNCHANGED cmpVars
    /\ UNCHANGED nameVars
    /\ UNCHANGED angleVars
    /\ UNCHANGED <<type, subject, other, factor>>

NextIndex ==
    \/ \E item \in Items : AddItem(item)
    \/ \E index \in OrdinalArguments : GetItem(index)

SpecIndex == InitList /\ [][NextIndex]_vars

\* C21: for a list of size N and every i in 1..N, getItem(i) is the i-th item
\* in insertion order and getItem(-i) is the item at position N - i + 1.
C21_OrdinalIndexing ==
    outcome.done =>
        LET size == Len(before)
            index == outcome.index
        IN  /\ index \in 1..size => outcome.item = before[index]
            /\ (-index) \in 1..size => outcome.item = before[size + index + 1]

\* getItem(-1) on a list of three different items returned the last one
C21_Witness ==
    /\ outcome.done
    /\ outcome.index = -1
    /\ Len(before) = 3
    /\ before[1] # before[3]
    /\ outcome.item = before[3]

-----------------------------------------------------------------------------
(* Names over JavaScript arrays.  An array is an object: the caller and    *)
(* the closure of a Name constructor may hold the same one.  arrays is the *)
(* heap, a reference is an index into it, and held is what the caller can  *)
(* reach and therefore change.                                             *)

MaxNameSize == 2    \* longest array handed to the Name constructor
MaxArrays == 2      \* arrays allocated in one behaviour of the Name machine
MaxNames == 3       \* Names in one behaviour of the concatenation machine
MaxIterators == 2   \* iterators created in one behaviour

Identifiers == {Str(<<"a">>), Str(<<"b">>)}

\* the arrays a caller hands to the constructor
IdentifierArrays == UNION {[1..n -> Identifiers] : n \in 0..MaxNameSize}

\* the indices handed to getItem and getItems
NameIndexArguments == ((-MaxNameSize)..MaxNameSize) \ {0}

\* the slots handed to toSlot, which accepts any
SlotArguments == (-1)..(MaxNameSize + 1)

\* a call on a Name recorded
Only(call) == <<call>>

\* a call on an iterator recorded; a getNext is kept together with the
\* getPrevious on the same iterator that follows it immediately
Log(call) ==
    IF /\ calls # <<>>
       /\ calls[Len(calls)].name = "getNext"
       /\ call.name = "getPrevious"
       /\ calls[Len(calls)].target = call.target
    THEN <<calls[Len(calls)], call>>
    ELSE <<call>>

LastCall == calls[Len(calls)]

\* this.getValue(): a copy of the array that the constructor's closure holds
getValue(name) == arrays[name.value]

\* Name.prototype.getItem
nameGetItem(name, index) ==
    LET identifiers == getValue(name)
    IN  elementAt(identifiers, normalizeIndex(index, Len(identifiers)) - 1)

\* Array.prototype.slice(begin, end): a negative argument counts from the
\* end, and both are clamped to the array
arraySlice(items, begin, end) ==
    LET clamp(index) == IF index < 0
                        THEN (IF Len(items) + index < 0 THEN 0 ELSE Len(items) + index)
                        ELSE (IF index > Len(items) THEN Len(items) ELSE index)
    IN  slice(items, clamp(begin), clamp(end))

\* the identifiers that Name.prototype.getItems hands to the constructor
nameGetItems(name, firstIndex, lastIndex) ==
    LET identifiers == getValue(name)
        from == normalizeIndex(firstIndex, Len(identifiers)) - 1
        to == normalizeIndex(lastIndex, Len(identifiers))
    IN  arraySlice(identifiers, from, to)

\* the join with the operands in the other order
concatenationReversed(firstName, secondName) ==
    getValue(secondName) \o getValue(firstName)

\* the identifiers that Name.concatenation hands to the constructor
concatenation(firstName, secondName) ==
    getValue(firstName) \o getValue(secondName)

\* an iterator that starts after the last identifier
NameIteratorAtEnd(identifiers) ==
    [identifiers |-> identifiers, size |-> Len(identifiers), slot |-> Len(identifiers)]

\* new NameIterator(identifiers): identifiers is the copy made by getValue,
\* which nothing else refers to
NameIterator(identifiers) ==
    [identifiers |-> identifiers, size |-> Len(identifiers), slot |-> 0]

hasPrevious(iterator) == iterator.slot > 0

hasNext(iterator) == iterator.slot < iterator.size

\* NameIterator.getPrevious: the identifier returned and the iterator after
getPrevious(iterator) ==
    IF ~hasPrevious(iterator)
    THEN [result |-> Undefined, iterator |-> iterator]
    ELSE [result |-> elementAt(iterator.identifiers, iterator.slot - 1),
          iterator |-> [iterator EXCEPT !.slot = iterator.slot - 1]]

\* getNext without the hasNext test
getNextPastTheEnd(iterator) ==
    [result |-> elementAt(iterator.identifiers, iterator.slot),
     iterator |-> [iterator EXCEPT !.slot = iterator.slot + 1]]

\* NameIterator.getNext: the identifier returned and the iterator after
getNext(iterator) ==
    IF ~hasNext(iterator)
    THEN [result |-> Undefined, iterator |-> iterator]
    ELSE [result |-> elementAt(iterator.identifiers, iterator.slot),
          iterator |-> [iterator EXCEPT !.slot = iterator.slot + 1]]

\* new Name(value) on a new array of the caller: the closure keeps the
\* reference to that array; given records the identifiers it held then
NewName(identifiers) ==
    LET reference == Len(arrays) + 1
        built == Name(ArrayOf(identifiers))
    IN  /\ Len(arrays) < MaxArrays
        /\ arrays' = Append(arrays, identifiers)
        /\ held' = held \cup {reference}
        /\ names' = IF built.t = "throw" THEN names
                    ELSE Append(names, [value |-> reference, given |-> identifiers])
        /\ calls' = Only([name |-> "Name", result |-> built.t])
        /\ UNCHANGED iterators
        /\ UNCHANGED <<listVars, cmpVars, angleVars, elementVars>>

\* array[index] = identifier, by the caller on an array it holds
SetElement(reference, index, identifier) ==
    /\ reference \in held
    /\ index \in 1..Len(arrays[reference])
    /\ arrays' = [arrays EXCEPT ![reference][index] = identifier]
    /\ UNCHANGED <<held, names, iterators, calls>>
    /\ UNCHANGED <<listVars, cmpVars, angleVars, elementVars>>

\* array.push(identifier), by the caller on an array it holds
Push(reference, identifier) ==
    /\ reference \in held
    /\ Len(arrays[reference]) < MaxNameSize
    /\ arrays' = [arrays EXCEPT ![reference] = Append(@, identifier)]
    /\ UNCHANGED <<held, names, iterators, calls>>
    /\ UNCHANGED <<listVars, cmpVars, angleVars, elementVars>>

\* name.getValue(), called by the caller, who keeps the array returned
GetValue(n) ==
    LET reference == Len(arrays) + 1
    IN  /\ Len(arrays) < MaxArrays
        /\ arrays' = Append(arrays, getValue(names[n]))
        /\ held' = held \cup {reference}
        /\ calls' = Only([name |-> "getValue", target |-> n, result |-> reference])
        /\ UNCHANGED <<names, iterators>>
        /\ UNCHANGED <<listVars, cmpVars, angleVars, elementVars>>

\* Name.prototype.getItem(index)
NameGetItem(n, index) ==
    /\ calls' = Only([name |-> "getItem", target |-> n, index |-> index,
                     result |-> nameGetItem(names[n], index)])
    /\ UNCHANGED <<arrays, held, names, iterators>>
    /\ UNCHANGED <<listVars, cmpVars, angleVars, elementVars>>

\* Name.prototype.getItems(range): the new Name keeps the sliced array
NameGetItems(n, firstIndex, lastIndex) ==
    LET reference == Len(arrays) + 1
        identifiers == nameGetItems(names[n], firstIndex, lastIndex)
        built == Name(ArrayOf(identifiers))
    IN  /\ Len(arrays) < MaxArrays
        /\ arrays' = Append(arrays, identifiers)
        /\ names' = IF built.t = "throw" THEN names
                    ELSE Append(names, [value |-> reference, given |-> identifiers])
        /\ calls' = Only([name |-> "getItems", target |-> n, result |-> built.t])
        /\ UNCHANGED <<held, iterators>>
        /\ UNCHANGED <<listVars, cmpVars, angleVars, elementVars>>

\* Name.prototype.getIterator()
NameGetIterator(n) ==
    /\ Len(iterators) < MaxIterators
    /\ iterators' = Append(iterators, NameIterator(getValue(names[n])))
    /\ calls' = Only([name |-> "getIterator", target |-> n,
                     result |-> Len(iterators) + 1])
    /\ UNCHANGED <<arrays, held, names>>
    /\ UNCHANGED <<listVars, cmpVars, angleVars, elementVars>>

\* Name.concatenation(first, second): the new Name keeps the joined array;
\* operands records what the two operands reported before the call
Concatenation(n1, n2) ==
    LET reference == Len(arrays) + 1
        identifiers == concatenation(names[n1], names[n2])
    IN  /\ arrays' = Append(arrays, identifiers)
        /\ names' = Append(names, [value |-> reference, given |-> identifiers])
        /\ calls' = Only([name |-> "concatenation", first |-> n1, second |-> n2,
                         operands |-> <<getValue(names[n1]), getValue(names[n2])>>,
                         result |-> Len(names) + 1])
        /\ UNCHANGED <<held, iterators>>
        /\ UNCHANGED <<listVars, cmpVars, angleVars, elementVars>>

InitName ==
    /\ IdleName
    /\ IdleList
    /\ IdleCmp
    /\ IdleAngle
    /\ IdleElement

NextName ==
    \/ \E identifiers \in IdentifierArrays : NewName(identifiers)
    \/ \E reference \in held, index \in 1..MaxNameSize,
          identifier \in Identifiers : SetElement(reference, index, identifier)
    \/ \E reference \in held, identifier \in Identifiers :
          Push(reference, identifier)
    \/ \E n \in DOMAIN names : GetValue(n)
    \/ \E n \in DOMAIN names, index \in NameIndexArguments : NameGetItem(n, index)
    \/ \E n \in DOMAIN names, firstIndex \in NameIndexArguments,
          lastIndex \in NameIndexArguments : NameGetItems(n, firstIndex, lastIndex)
    \/ \E n \in DOMAIN names : NameGetIterator(n)
    \/ \E n1 \in DOMAIN names, n2 \in DOMAIN names :
          Len(arrays) < MaxArrays /\ Concatenation(n1, n2)

SpecName == InitName /\ [][NextName]_vars

-----------------------------------------------------------------------------
(* Concatenation of two Names the caller has constructed.                  *)

InitConcat ==
    /\ arrays \in [1..2 -> IdentifierArrays \ {<<>>}]
    /\ held = {1, 2}
    /\ names = [n \in 1..2 |-> [value |-> n, given |-> arrays[n]]]
    /\ iterators = <<>>
    /\ calls = <<>>
    /\ IdleList
    /\ IdleCmp
    /\ IdleAngle
    /\ IdleElement

NextConcat ==
    \E n1 \in DOMAIN names, n2 \in DOMAIN names :
        Len(names) < MaxNames /\ Concatenation(n1, n2)

SpecConcat == InitConcat /\ [][NextConcat]_vars

\* C22: Name.concatenation(a, b) returns a new Name whose identifiers are a's
\* followed by b's, of size size(a) + size(b), and leaves a and b unchanged.
C22_Concatenation ==
    calls # <<>> /\ LastCall.name = "concatenation" =>
        LET a == names[LastCall.first]
            b == names[LastCall.second]
            joined == names[LastCall.result]
        IN  /\ getValue(joined) = LastCall.operands[1] \o LastCall.operands[2]
            /\ Len(getValue(joined)) = Len(getValue(a)) + Len(getValue(b))
            /\ getValue(a) = LastCall.operands[1]
            /\ getValue(b) = LastCall.operands[2]
            /\ LastCall.result \notin {LastCall.first, LastCall.second}
            /\ joined.value \notin {a.value, b.value}

\* concatenation(Name([a,b]), Name([a])) returned Name([a,b,a])
C22_Witness ==
    /\ calls # <<>>
    /\ LastCall.name = "concatenation"
    /\ LastCall.operands = <<<<Str(<<"a">>), Str(<<"b">>)>>, <<Str(<<"a">>)>>>>
    /\ getValue(names[LastCall.result]) = <<Str(<<"a">>), Str(<<"b">>), Str(<<"a">>)>>

-----------------------------------------------------------------------------
(* Iterators over one Name.  Every call on an iterator is recorded with    *)
(* the slot the iterator was at before it.                                 *)

IteratorCalls == {"toStart", "toSlot", "toEnd", "getPrevious", "getNext"}

\* NameIterator.toStart()
ToStart(i) ==
    /\ iterators' = [iterators EXCEPT ![i].slot = 0]
    /\ calls' = Log([name |-> "toStart", target |-> i,
                     slot |-> iterators[i].slot, result |-> Undefined])
    /\ UNCHANGED <<arrays, held, names>>
    /\ UNCHANGED <<listVars, cmpVars, angleVars, elementVars>>

\* NameIterator.toSlot(newSlot)
ToSlot(i, newSlot) ==
    /\ iterators' = [iterators EXCEPT ![i].slot = newSlot]
    /\ calls' = Log([name |-> "toSlot", target |-> i,
                     slot |-> iterators[i].slot, result |-> Undefined])
    /\ UNCHANGED <<arrays, held, names>>
    /\ UNCHANGED <<listVars, cmpVars, angleVars, elementVars>>

\* NameIterator.toEnd()
ToEnd(i) ==
    /\ iterators' = [iterators EXCEPT ![i].slot = iterators[i].size]
    /\ calls' = Log([name |-> "toEnd", target |-> i,
                     slot |-> iterators[i].slot, result |-> Undefined])
    /\ UNCHANGED <<arrays, held, names>>
    /\ UNCHANGED <<listVars, cmpVars, angleVars, elementVars>>

\* NameIterator.getPrevious()
GetPrevious(i) ==
    LET got == getPrevious(iterators[i])
    IN  /\ iterators' = [iterators EXCEPT ![i] = got.iterator]
        /\ calls' = Log([name |-> "getPrevious", target |-> i,
                         slot |-> iterators[i].slot, result |-> got.result])
        /\ UNCHANGED <<arrays, held, names>>
        /\ UNCHANGED <<listVars, cmpVars, angleVars, elementVars>>

\* NameIterator.getNext()
GetNext(i) ==
    LET got == getNext(iterators[i])
    IN  /\ iterators' = [iterators EXCEPT ![i] = got.iterator]
        /\ calls' = Log([name |-> "getNext", target |-> i,
                         slot |-> iterators[i].slot, result |-> got.result])
        /\ UNCHANGED <<arrays, held, names>>
        /\ UNCHANGED <<listVars, cmpVars, angleVars, elementVars>>

\* one Name, constructed from an array of the caller
InitIterator ==
    /\ arrays \in [1..1 -> IdentifierArrays \ {<<>>}]
    /\ held = {1}
    /\ names = <<[value |-> 1, given |-> arrays[1]]>>
    /\ iterators = <<>>
    /\ calls = <<>>
    /\ IdleList
    /\ IdleCmp
    /\ IdleAngle
    /\ IdleElement

\* the calls that keep the cursor where the code means it to be
NextCursor ==
    \/ \E n \in DOMAIN names : NameGetIterator(n)
    \/ \E i \in DOMAIN iterators : ToStart(i)
    \/ \E i \in DOMAIN iterators : ToEnd(i)
    \/ \E i \in DOMAIN iterators : GetPrevious(i)
    \/ \E i \in DOMAIN iterators : GetNext(i)

NextIterator ==
    \/ NextCursor
    \/ \E i \in DOMAIN iterators, newSlot \in SlotArguments : ToSlot(i, newSlot)

SpecIterator == InitIterator /\ [][NextIterator]_vars

SpecCursor == InitIterator /\ [][NextCursor]_vars

\* what a step that is a getIterator() call must do
FreshIterator ==
    LET created == iterators'[Len(iterators')]
    IN  /\ Len(iterators') = Len(iterators) + 1
        /\ created.slot = 0
        /\ ~hasPrevious(created)
        /\ getNext(created).result = getValue(names[LastCall'.target])[1]
        /\ \A j \in DOMAIN iterators : iterators'[j] = iterators[j]
        /\ names' = names
        /\ arrays' = arrays

\* what a step that is a call on one iterator must leave alone
OthersUntouched ==
    /\ DOMAIN iterators' = DOMAIN iterators
    /\ \A j \in DOMAIN iterators \ {LastCall'.target} : iterators'[j] = iterators[j]
    /\ names' = names
    /\ arrays' = arrays

\* C24: every getIterator() call returns a new iterator before the first
\* identifier (hasPrevious false, getNext yields identifier 1), and a toStart,
\* toEnd, toSlot, getNext or getPrevious on one iterator leaves every other
\* iterator over the Name, and the Name, as they were.
C24_IteratorsAreIndependent ==
    [][/\ LastCall'.name = "getIterator" => FreshIterator
       /\ LastCall'.name \in IteratorCalls => OthersUntouched]_vars

\* two iterators over one Name stand at different slots after a getNext on
\* the first
C24_Witness ==
    /\ Len(iterators) = 2
    /\ calls # <<>>
    /\ LastCall.name = "getNext"
    /\ LastCall.target = 1
    /\ iterators[1].slot = 2
    /\ iterators[2].slot = 0

\* the slot of every iterator is within the Name
SlotsInRange ==
    \A i \in DOMAIN iterators : 0 <= iterators[i].slot /\ iterators[i].slot <= iterators[i].size

\* getNext at the end and getPrevious at the start return nothing and leave
\* the slot where it was
NothingBeyondTheEnds ==
    calls # <<>> =>
        LET iterator == iterators[LastCall.target]
        IN  /\ LastCall.name = "getNext" /\ LastCall.slot = iterator.size =>
                LastCall.result = Undefined /\ iterator.slot = LastCall.slot
            /\ LastCall.name = "getPrevious" /\ LastCall.slot = 0 =>
                LastCall.result = Undefined /\ iterator.slot = LastCall.slot

\* the last two calls were getNext and then getPrevious on one iterator
NextThenPrevious ==
    /\ Len(calls) = 2
    /\ calls[1].name = "getNext"
    /\ calls[2].name = "getPrevious"
    /\ calls[1].target = calls[2].target

\* C30 as stated: the slot stays in 0..size, getNext at the end and
\* getPrevious at the start return nothing and leave the slot, and every
\* getNext immediately followed by getPrevious returns the same identifier
\* twice and restores the slot.
C30_CursorInvariantAsStated ==
    /\ SlotsInRange
    /\ NothingBeyondTheEnds
    /\ NextThenPrevious =>
           /\ calls[2].result = calls[1].result
           /\ calls[1].result # Undefined
           /\ iterators[calls[2].target].slot = calls[1].slot

\* C30: the slot stays in 0..size, getNext at the end and getPrevious at the
\* start return nothing and leave the slot, and a getNext that returned an
\* identifier, immediately followed by getPrevious, returns that identifier
\* again and restores the slot.
C30_CursorInvariant ==
    /\ SlotsInRange
    /\ NothingBeyondTheEnds
    /\ NextThenPrevious /\ calls[1].result # Undefined =>
           /\ calls[2].result = calls[1].result
           /\ iterators[calls[2].target].slot = calls[1].slot

\* getNext returned the second identifier of a Name and getPrevious returned
\* it again, back at slot 1
C30_Witness ==
    /\ NextThenPrevious
    /\ calls[1].slot = 1
    /\ calls[1].result # Undefined
    /\ calls[2].result = calls[1].result
    /\ iterators[calls[2].target].slot = 1

-----------------------------------------------------------------------------
(* The truth value of a constructed Number.                                *)

\* number.toBoolean() on the Number that new Complex(subject, other) built
ToBoolean ==
    /\ outcome.done
    /\ "truth" \notin DOMAIN outcome
    /\ outcome' = [done |-> TRUE, number |-> outcome.number,
                   truth |-> toBoolean(outcome.number)]
    /\ UNCHANGED <<type, subject, other, factor>>
    /\ UNCHANGED <<listVars, cmpVars, nameVars, angleVars>>

NextTruth ==
    \/ NewComplex
    \/ ToBoolean

SpecTruth == InitComplex /\ [][NextTruth]_vars

\* C25: Complex.prototype.toBoolean returns false if the number is undefined,
\* zero or infinity, and true otherwise.
C25_ToBooleanIsMeaningful ==
    outcome.done /\ "truth" \in DOMAIN outcome =>
        outcome.truth = ~(\/ isUndefined(outcome.number)
                          \/ isZero(outcome.number)
                          \/ isInfinite(outcome.number))

-----------------------------------------------------------------------------
(* The weighted coin toss.  Probabilities are multiples of 1/Unit.         *)

\* the values random.probability() can return: the closed interval [0, 1]
RandomProbabilities == 0..Unit

\* the weightings handed to coinToss
Weightings == {Num(w) : w \in 0..Unit}

\* Probability.coinToss(weighting), given the random probability drawn
coinToss(weighting, probability) == probability < weighting.n

NotTossed == [done |-> FALSE]

InitToss ==
    /\ type = "Probability"
    /\ subject \in Weightings
    /\ other = Undefined
    /\ factor = 0
    /\ outcome = NotTossed
    /\ IdleList
    /\ IdleCmp
    /\ IdleName
    /\ IdleAngle

\* Probability.coinToss(subject)
CoinToss(probability) ==
    /\ ~outcome.done
    /\ outcome' = [done |-> TRUE, probability |-> probability,
                   result |-> coinToss(subject, probability)]
    /\ UNCHANGED <<type, subject, other, factor>>
    /\ UNCHANGED <<listVars, cmpVars, nameVars, angleVars>>

NextToss == \E probability \in RandomProbabilities : CoinToss(probability)

SpecToss == InitToss /\ [][NextToss]_vars

\* C26: whatever the random source returns, coinToss(0) is false and
\* coinToss(1) is true.
C26_ExtremeCoinTosses ==
    outcome.done =>
        /\ subject = Num(0) => outcome.result = FALSE
        /\ subject = Num(Unit) => outcome.result = TRUE

-----------------------------------------------------------------------------
(* The merge of two arrays, one iteration of its loop at a time.  subject  *)
(* is left and other is right; outcome holds the local variables of        *)
(* mergeArrays, what the last iteration compared and emitted, and the      *)
(* number of iterations made, counted modulo 2.                            *)

MaxMerge == 2       \* longest array handed to mergeArrays

\* Numbers of which some compare equal without being the same, and the
\* Undefined number
MergeItems == {Complex(2, 0), Complex(2, 2), Complex(3, 0), Complex(NaN, 0)}

MergeArguments ==
    {ArrayOf(items) : items \in UNION {[1..n -> MergeItems] : n \in 0..MaxMerge}}

\* the switch of mergeArrays that sends a tie to the left half
emittedOnTiesLeft(compared) ==
    IF compared \in {-1, 0} THEN "left"
    ELSE IF compared = 1 THEN "right"
    ELSE "neither"

\* the switch of mergeArrays: the half whose head is copied to the result
emitted(compared) ==
    IF compared = -1 THEN "left"
    ELSE IF compared = 0 \/ compared = 1 THEN "right"
    ELSE "neither"

\* both halves still have elements
InLoop ==
    /\ outcome.leftIndex < Len(subject.items)
    /\ outcome.rightIndex < Len(other.items)

InitMerge ==
    /\ type = "MergeSorter"
    /\ subject \in MergeArguments
    /\ other \in MergeArguments
    /\ factor = 0
    /\ outcome = [done |-> FALSE, raised |-> FALSE,
                  leftIndex |-> 0, rightIndex |-> 0, result |-> <<>>,
                  compared |-> Return(0), emitted |-> "nothing yet", turn |-> 0]
    /\ IdleList
    /\ IdleCmp
    /\ IdleName
    /\ IdleAngle

\* one iteration of the while loop of MergeSorter.prototype.mergeArrays
MergeIteration ==
    LET leftHead == subject.items[outcome.leftIndex + 1]
        rightHead == other.items[outcome.rightIndex + 1]
        c == compareItems(leftHead, rightHead)
        from == IF c.t = "throw" THEN "neither" ELSE emitted(c.v)
    IN  /\ ~outcome.done
        /\ InLoop
        /\ outcome' =
              [done |-> c.t = "throw",
               raised |-> c.t = "throw",
               leftIndex |-> outcome.leftIndex + (IF from = "left" THEN 1 ELSE 0),
               rightIndex |-> outcome.rightIndex + (IF from = "right" THEN 1 ELSE 0),
               result |-> CASE from = "left" -> Append(outcome.result, leftHead)
                            [] from = "right" -> Append(outcome.result, rightHead)
                            [] OTHER -> outcome.result,
               compared |-> c,
               emitted |-> from,
               turn |-> (outcome.turn + 1) % 2]
        /\ UNCHANGED <<type, subject, other, factor>>
        /\ UNCHANGED <<listVars, cmpVars, nameVars, angleVars>>

\* the statements of mergeArrays after the loop: the rest of one half
MergeFinish ==
    /\ ~outcome.done
    /\ ~InLoop
    /\ outcome' =
          [outcome EXCEPT
              !.done = TRUE,
              !.result =
                  IF outcome.leftIndex < Len(subject.items)
                  THEN @ \o slice(subject.items, outcome.leftIndex, Len(subject.items))
                  ELSE @ \o slice(other.items, outcome.rightIndex, Len(other.items))]
    /\ UNCHANGED <<type, subject, other, factor>>
    /\ UNCHANGED <<listVars, cmpVars, nameVars, angleVars>>

NextMerge ==
    \/ MergeIteration
    \/ MergeFinish

SpecMerge == InitMerge /\ [][NextMerge]_vars

\* a call that has started keeps running
SpecMergeFair == SpecMerge /\ WF_vars(NextMerge)

\* C27: in the merge step (the state after an iteration of the loop), when the
\* heads of the two halves compared equal, or the left one was greater, the
\* right head is the one emitted; so two items that compare equal need not
\* keep their order: merged from one-item halves they come out right first.
C27_TiesEmitRightFirst ==
    /\ outcome.emitted # "nothing yet" /\ ~outcome.done /\ outcome.compared.v \in {0, 1} =>
           /\ outcome.emitted = "right"
           /\ outcome.result[Len(outcome.result)] = other.items[outcome.rightIndex]
    /\ outcome.done /\ ~outcome.raised /\ Len(subject.items) = 1 /\ Len(other.items) = 1
          /\ compareItems(subject.items[1], other.items[1]) = Return(0) =>
           outcome.result = <<other.items[1], subject.items[1]>>

\* two different items that compare equal came out of the merge with the
\* right one first
C27_Witness ==
    /\ outcome.done
    /\ subject.items = <<Complex(2, 0)>>
    /\ other.items = <<Complex(2, 2)>>
    /\ outcome.compared = Return(0)
    /\ outcome.result = <<Complex(2, 2), Complex(2, 0)>>

\* C29: the merge loop terminates for every pair of input arrays and every
\* value the item comparison returns.
C29_MergeTerminates == <>outcome.done

-----------------------------------------------------------------------------
(* Removal over a range of which some positions hold no item, checked      *)
(* under Spec.                                                             *)

\* C28: removeItems over a range in which some positions hold no item does
\* not raise, skips those positions, and returns a collection holding only
\* items that were removed from the original, never an absent entry.
C28_RemoveItemsSkipsAbsent ==
    op.name \in {"removeItems", "removeRange"} =>
        /\ ~thrown
        /\ \A i \in 1..Len(removedItems) : removedItems[i] # Undefined
        /\ SameItems(removedItems \o array, before)

====
